---- MODULE Spec2Model ----
(***************************************************************************)
(* PhantomFill: the per-window replay engine (src/src/replay.rs), the fill *)
(* models it drives (src/src/fill/delise.rs and the test models of         *)
(* replay.rs) and the queue primitives (src/src/fill/queue.rs,             *)
(* src/src/types.rs); the batch loop run_all; the fade signals of          *)
(* src/src/strategies/fade.rs.                                             *)
(*                                                                         *)
(* Specifications:                                                         *)
(*   Spec        one run of run_window                                     *)
(*   PairSpec    two runs of run_window over the same inputs               *)
(*   DeLiseSpec  the DeLise fill model called on its own                   *)
(*   RunAllSpec  run_all over a list of markets                            *)
(*   FadeSpec    compute_fade_signals on a list and on a permutation of it *)
(*   HistorySpec compute_fade_signals on a list longer than its history    *)
(*   DepthSpec   SideState::bid_depth_at on a ladder and a price           *)
(*   AnyOrderSpec    run_window on snapshots in any order                  *)
(*   ReportSpec      Report::from_results on a list of window results      *)
(*   SummarySpec     MonteCarloSummary::from_reports, in f64 arithmetic    *)
(*   ScriptSpec      RhaiStrategy::on_tick on what a script returns        *)
(*   CmdRunSpec      the run command of src/src/bin/pf.rs                  *)
(*   TicksSpec       ticks_to_snapshots on a list of ticks                 *)
(*   PostCancelSpec  PostBothCancelLoser over the windows of a run         *)
(*   StrategySpec    a built-in strategy over the windows of a run         *)
(*                                                                         *)
(* Encoding of the numbers:                                                *)
(*   prices         integer cents            (0.49 is 49)                  *)
(*   shares, sizes  integers                                               *)
(*   PnL            cents * shares           (10 * (1 - 0.49) is 510)      *)
(*   probabilities  parts per 10000          (0.99 is 9900)                *)
(*   Option<T>      <<>> for None, <<v>> for Some(v)                       *)
(* Snapshot offsets are whole seconds, so dt_secs is an integer.           *)
(***************************************************************************)
EXTENDS Integers, Sequences, FiniteSets, TLC

VARIABLES
    pc,                 \* position in run_window: start, fill, strategy, apply, done
    fill_model,         \* ReplayEngine.fill_model (which FillModel implementation)
    market_outcome,     \* Market.outcome : Option<Outcome>
    snapshots_empty,    \* snapshots.is_empty()
    snap,               \* the loop variable `snap` (NoSnap outside the loop body)
    tick,               \* number of snapshots consumed so far
    prev_offset_ms,     \* run_window local
    orders,             \* run_window local: Vec<SimOrder>
    cancelled,          \* run_window local: Vec<bool>
    signal_offset_ms,   \* run_window local: Option<i64>
    actions,            \* the Vec<Action> returned by on_tick for this tick
    ai,                 \* index of the next action of `actions` to apply
    filled_indices,     \* return value of the last process_tick call
    result,             \* Option<WindowResult> returned by run_window
    \* run 2: a second run of the same window over the same inputs (PairSpec)
    orders2, cancelled2, signal_offset_ms2, result2,
    \* history variables
    offsets_order,      \* "strict", "nondecreasing" or "arbitrary": the offsets consumed so far
    pt_call,            \* arguments of the process_tick call of this tick
    last_offset,        \* offset_ms of the last snapshot consumed (None before the first)
    placed_tick,        \* per order: the tick on which it was created
    seen_tick,          \* per order: the first tick on which process_tick had it (0: never)
    applied,            \* the actions applied so far in this tick, in order
    calls,              \* the calls made so far in this tick, in order
    race,               \* {[idx, offset_ms]}: orders filled on a tick whose actions cancel their side
    \* the fill model driven on its own (DeLiseSpec)
    orders_before,      \* the orders handed to the last call of the fill model
    us_drawn,           \* the value sample_uniform had for each order in the last process_tick
    \* run_all (RunAllSpec)
    run_markets,        \* the `markets` argument, each with what snapshots_fn gives for it
    run_i,              \* the loop index (1-based: the next market)
    run_results,        \* the local `results`
    run_built,          \* how many strategies strategy_fn has built
    run_log,            \* the run_window calls so far: market id and strategy
    \* compute_fade_signals (FadeSpec)
    fade_markets,       \* the `markets` argument
    min_streak,         \* the `min_streak` argument
    max_streak,         \* the `max_streak` argument
    fade_signals,       \* Option of the map returned for fade_markets
    fade_permuted,      \* a permutation of fade_markets
    fade_signals_permuted,  \* Option of the map returned for fade_permuted
    \* SideState::bid_depth_at (DepthSpec)
    ladder,             \* SideState.depth of `self`
    depth_price,        \* the `price` argument
    depth_returned,     \* Option of the value returned
    \* Report::from_results (ReportSpec)
    report_results,     \* the `results` argument
    report,             \* Option of the Report returned
    \* MonteCarloSummary::from_reports (SummarySpec)
    summary_pnls,       \* realistic_total_pnl of the `reports` argument, in its order
    summary,            \* Option of the MonteCarloSummary returned
    \* RhaiStrategy::on_tick (ScriptSpec)
    script_tick,        \* how many ticks of the window on_tick has been called for
    script_returned,    \* what the script's on_tick gave on the last of them
    script_actions,     \* the actions on_tick returned for it
    script_failed,      \* how many of the calls ended in an error or a value that is no array
    \* cmd_run (CmdRunSpec)
    cmd_args,           \* the arguments of cmd_run and what it will find on disk
    cmd_events,         \* the accesses to the data store so far
    cmd_error,          \* Option of the error cmd_run returned
    cmd_built,          \* what make_strategy has returned so far, one entry per call
    \* ticks_to_snapshots (TicksSpec)
    ticks_market_id,    \* the `market_id` argument
    book_ticks,         \* the `ticks` argument
    ticks_snapshots,    \* Option of the snapshots returned
    \* PostBothCancelLoser (PostCancelSpec)
    pcl_min_bps,        \* PostBothCancelLoser.min_bps
    pcl_strategy,       \* open_oracle, placed and signal_acted of the strategy
    pcl_windows,        \* how many windows have been opened with the strategy
    pcl_history,        \* the snapshot and the returned actions of every on_tick of the window
    \* the built-in strategies, driven as run_window drives them
    strat_kind,         \* the name of the built-in strategy that is driven
    strat_state,        \* the strategy instance that is kept from window to window
    strat_fresh,        \* an instance built anew for the window
    strat_windows,      \* the number of windows opened
    strat_first,        \* snapshots[0] of the window
    strat_history       \* the snapshots of the window with the actions each instance returned

reportvars == <<report_results, report>>

summaryvars == <<summary_pnls, summary>>

scriptvars == <<script_tick, script_returned, script_actions, script_failed>>

cmdvars == <<cmd_args, cmd_events, cmd_error, cmd_built>>

ticksvars == <<ticks_market_id, book_ticks, ticks_snapshots>>

pclvars == <<pcl_min_bps, pcl_strategy, pcl_windows, pcl_history>>

stratvars == <<strat_kind, strat_state, strat_fresh, strat_windows, strat_first, strat_history>>

\* The variables of the functions that are called on their own, further down.
newvars == <<stratvars, pclvars, ticksvars, cmdvars, scriptvars, summaryvars, reportvars>>

vars == <<pc, fill_model, market_outcome, snapshots_empty, snap, tick, prev_offset_ms, orders, cancelled,
          signal_offset_ms, actions, ai, filled_indices, result,
          orders2, cancelled2, signal_offset_ms2, result2,
          offsets_order, pt_call, last_offset, placed_tick, seen_tick, applied, calls, race,
          orders_before, us_drawn, run_markets, run_i, run_results, run_built, run_log,
          fade_markets, min_streak, max_streak, fade_signals, fade_permuted,
          fade_signals_permuted, ladder, depth_price, depth_returned, newvars>>

run2vars == <<orders2, cancelled2, signal_offset_ms2, result2>>

\* What no step of run_window changes.
extvars == <<snapshots_empty, orders_before, us_drawn,
             run_markets, run_i, run_results, run_built, run_log,
             fade_markets, min_streak, max_streak, fade_signals, fade_permuted,
             fade_signals_permuted, ladder, depth_price, depth_returned, newvars>>

\* Every variable but pc and newvars.
restvars == <<fill_model, market_outcome, snapshots_empty, snap, tick, prev_offset_ms, orders,
              cancelled, signal_offset_ms, actions, ai, filled_indices, result, run2vars,
              offsets_order, pt_call, last_offset, placed_tick, seen_tick, applied, calls, race,
              orders_before, us_drawn, run_markets, run_i, run_results, run_built, run_log,
              fade_markets, min_streak, max_streak, fade_signals, fade_permuted,
              fade_signals_permuted, ladder, depth_price, depth_returned>>

-----------------------------------------------------------------------------
(* Bounds of the model *)

MaxTicks == 3          \* snapshots per window
MaxOffsetK == 2        \* offsets are 0 .. MaxOffsetK half-signal steps
MaxActions == 2        \* actions a strategy returns from one on_tick
NumSamples == 1        \* evenly spread uniform samples (plus the largest one)
MaxModelOrders == 2    \* orders handed to the fill model driven on its own
MaxModelTicks == 2     \* process_tick calls on the fill model driven on its own
MaxMarkets == 3        \* markets handed to run_all
MaxFadeMarkets == 3    \* markets handed to compute_fade_signals
MaxStreak == 2         \* min_streak and max_streak are 1 .. MaxStreak
MaxHistoryMarkets == 9 \* markets of the one group of a list that outgrows the streak history
MaxRungs == 3          \* levels of a depth ladder handed to bid_depth_at
MaxResults == 3        \* window results handed to Report::from_results
MaxReports == 3        \* reports handed to MonteCarloSummary::from_reports
MaxEntries == 2        \* entries of the array a script's on_tick returns
MaxScriptTicks == 2    \* ticks of a window replayed with a scripted strategy
MaxCmdMarkets == 2     \* markets in the data store cmd_run opens
MaxBookTicks == 3      \* ticks handed to ticks_to_snapshots
MaxPclTicks == 3       \* ticks of a window replayed with PostBothCancelLoser
MaxPclWindows == 2     \* windows replayed with one PostBothCancelLoser
MaxStratTicks == 3     \* snapshots of a window a built-in strategy is driven on
MaxStratWindows == 2   \* windows replayed with one built-in strategy

-----------------------------------------------------------------------------
(* Option<T> *)

None == <<>>
Some(v) == <<v>>
IsSome(o) == o # <<>>
Unwrap(o) == o[1]

Max(a, b) == IF a >= b THEN a ELSE b

-----------------------------------------------------------------------------
(* src/src/types.rs *)

Sides == {"Yes", "No"}
Outcomes == {"YES", "NO"}

\* Outcome::matches_side
matches_side(outcome, side) ==
    \/ outcome = "YES" /\ side = "Yes"
    \/ outcome = "NO" /\ side = "No"

\* Mutant of bid_depth_at: the fallback takes the first level at or above
\* the price instead of the lowest one.
bid_depth_at_first_above(state, price) ==
    LET d == state.depth
        exact == {i \in 1..Len(d) : d[i].price = price}
        above == {i \in 1..Len(d) : d[i].price >= price}
        first(S) == CHOOSE i \in S : \A j \in S : i <= j
    IN  IF exact # {} THEN d[first(exact)].cumulative_size
        ELSE IF above # {} THEN d[first(above)].cumulative_size
        ELSE 0

\* SideState::bid_depth_at: exact match first, else the nearest level at or
\* above the price (the first such level on equal prices), else 0.
bid_depth_at(state, price) ==
    LET d == state.depth
        exact == {i \in 1..Len(d) : d[i].price = price}
        above == {i \in 1..Len(d) : d[i].price >= price}
        first(S) == CHOOSE i \in S : \A j \in S : i <= j
        nearest == first({i \in above : \A j \in above : d[i].price <= d[j].price})
    IN  IF exact # {} THEN d[first(exact)].cumulative_size
        ELSE IF above # {} THEN d[nearest].cumulative_size
        ELSE 0

-----------------------------------------------------------------------------
(* src/src/fill/queue.rs *)

side_state(s, side) == IF side = "Yes" THEN s.yes ELSE s.no

queue_position(s, side, price) == bid_depth_at(side_state(s, side), price)

is_adverse_tick(s, side, our_bid) ==
    LET state == side_state(s, side)
    IN  IsSome(state.best_ask) /\ Unwrap(state.best_ask) <= our_bid

-----------------------------------------------------------------------------
(* src/src/fill/delise.rs: DeLiseConfig::default and DeLiseFillModel::new *)

Scale == 100 * 100             \* probabilities are parts per Scale
rf == 200                      \* 0.02
adverse_fill_prob == 9900      \* 0.99
winner_queue_threshold == 50
config_signal_offset_ms == 90000
post_signal_taker_mult_x10 == 18   \* 1.8
deterministic_rand == None     \* DeLiseFillModel::new; Some only under cfg(test)

\* The uniform samples of the model, in parts per Scale: evenly spread over
\* [0, 1), plus the largest value below 1.
USamples == {k * (Scale \div NumSamples) : k \in 0..(NumSamples - 1)} \cup {Scale - 1}

\* DeLiseFillModel::sample_uniform: the set of values one call can return.
\* rand::random reads the thread's generator; nothing of the configuration
\* enters it.
sample_uniform == IF IsSome(deterministic_rand) THEN {Unwrap(deterministic_rand)} ELSE USamples

\* (Scale - r)^n in parts per Scale, rounded down at each step.
RECURSIVE PowScaled(_, _)
PowScaled(base, n) ==
    IF n = 0 THEN Scale
    ELSE LET h == PowScaled(base, n \div 2)
             sq == (h * h) \div Scale
         IN  IF n % 2 = 1 THEN (sq * base) \div Scale ELSE sq

\* Mutant of rf_fill_probability: the elapsed time is taken as a distance.
rf_fill_probability_abs_dt(dt_ms, is_post_signal) ==
    IF dt_ms = 0 THEN 0
    ELSE LET r == IF is_post_signal THEN (rf * post_signal_taker_mult_x10) \div 10 ELSE rf
             d == IF dt_ms < 0 THEN 0 - dt_ms ELSE dt_ms
         IN  Scale - PowScaled(Scale - r, d \div 1000)

\* DeLiseFillModel::rf_fill_probability
rf_fill_probability(dt_ms, is_post_signal) ==
    IF dt_ms <= 0 THEN 0
    ELSE LET r == IF is_post_signal THEN (rf * post_signal_taker_mult_x10) \div 10 ELSE rf
         IN  Scale - PowScaled(Scale - r, dt_ms \div 1000)

\* DeLiseFillModel::create_order
DeLise_create_order(side, price, shares, s, offset_ms) ==
    [side |-> side, price |-> price, shares |-> shares, placed_at_ms |-> offset_ms,
     queue_ahead |-> queue_position(s, side, price), queue_consumed |-> 0,
     filled |-> FALSE, filled_at_ms |-> None]

\* Mutant of DeLise_process_order: the loop does not skip filled orders.
DeLise_process_order_no_skip(s, order, dt_ms, u) ==
    LET is_post_signal == s.offset_ms >= config_signal_offset_ms
    IN  IF is_adverse_tick(s, order.side, order.price)
        THEN LET state == side_state(s, order.side)
                 sweep_volume == IF IsSome(state.best_ask_size)
                                 THEN Unwrap(state.best_ask_size) ELSE 0
                 swept == [order EXCEPT !.queue_consumed = @ + sweep_volume]
             IN  IF swept.queue_consumed >= swept.queue_ahead /\ u < adverse_fill_prob
                 THEN [swept EXCEPT !.filled = TRUE, !.filled_at_ms = Some(s.offset_ms)]
                 ELSE swept
        ELSE IF u < rf_fill_probability(dt_ms, is_post_signal)
             THEN [order EXCEPT !.filled = TRUE, !.filled_at_ms = Some(s.offset_ms)]
             ELSE order

\* Mutant of DeLise_process_order: Rule 1 does not end the iteration, so an
\* order it left open goes on to Rule 2.
DeLise_process_order_fall_through(s, order, dt_ms, u) ==
    IF order.filled THEN order
    ELSE
    LET is_post_signal == s.offset_ms >= config_signal_offset_ms
        rule2(o) == IF u < rf_fill_probability(dt_ms, is_post_signal)
                    THEN [o EXCEPT !.filled = TRUE, !.filled_at_ms = Some(s.offset_ms)]
                    ELSE o
    IN  IF is_adverse_tick(s, order.side, order.price)
        THEN LET state == side_state(s, order.side)
                 sweep_volume == IF IsSome(state.best_ask_size)
                                 THEN Unwrap(state.best_ask_size) ELSE 0
                 swept == [order EXCEPT !.queue_consumed = @ + sweep_volume]
             IN  IF swept.queue_consumed >= swept.queue_ahead /\ u < adverse_fill_prob
                 THEN [swept EXCEPT !.filled = TRUE, !.filled_at_ms = Some(s.offset_ms)]
                 ELSE rule2(swept)
        ELSE rule2(order)

\* Mutant of DeLise_process_order: the sweep of a tick replaces what earlier
\* ticks consumed.
DeLise_process_order_last_sweep(s, order, dt_ms, u) ==
    IF order.filled THEN order
    ELSE
    LET is_post_signal == s.offset_ms >= config_signal_offset_ms
    IN  IF is_adverse_tick(s, order.side, order.price)
        THEN LET state == side_state(s, order.side)
                 sweep_volume == IF IsSome(state.best_ask_size)
                                 THEN Unwrap(state.best_ask_size) ELSE 0
                 swept == [order EXCEPT !.queue_consumed = sweep_volume]
             IN  IF swept.queue_consumed >= swept.queue_ahead /\ u < adverse_fill_prob
                 THEN [swept EXCEPT !.filled = TRUE, !.filled_at_ms = Some(s.offset_ms)]
                 ELSE swept
        ELSE IF u < rf_fill_probability(dt_ms, is_post_signal)
             THEN [order EXCEPT !.filled = TRUE, !.filled_at_ms = Some(s.offset_ms)]
             ELSE order

\* The body of the loop of DeLiseFillModel::process_tick for one order; u is
\* the value sample_uniform returns if the order draws one on this tick.
DeLise_process_order(s, order, dt_ms, u) ==
    IF order.filled THEN order
    ELSE
    LET is_post_signal == s.offset_ms >= config_signal_offset_ms
    IN  IF is_adverse_tick(s, order.side, order.price)
        THEN LET state == side_state(s, order.side)
                 sweep_volume == IF IsSome(state.best_ask_size)
                                 THEN Unwrap(state.best_ask_size) ELSE 0
                 swept == [order EXCEPT !.queue_consumed = @ + sweep_volume]
             IN  IF swept.queue_consumed >= swept.queue_ahead /\ u < adverse_fill_prob
                 THEN [swept EXCEPT !.filled = TRUE, !.filled_at_ms = Some(s.offset_ms)]
                 ELSE swept
        ELSE IF u < rf_fill_probability(dt_ms, is_post_signal)
             THEN [order EXCEPT !.filled = TRUE, !.filled_at_ms = Some(s.offset_ms)]
             ELSE order

\* DeLiseFillModel::process_tick: the orders after the call; us[i] is the
\* sample drawn for order i.
DeLise_process_tick(s, os, prev, us) ==
    [i \in 1..Len(os) |-> DeLise_process_order(s, os[i], s.offset_ms - prev, us[i])]

\* Mutant of DeLise_adverse_selection_filter: a winner at the threshold passes.
DeLise_adverse_selection_filter_inclusive(order, is_winner) ==
    IF ~IsSome(order.filled_at_ms) THEN FALSE
    ELSE IF Unwrap(order.filled_at_ms) < config_signal_offset_ms THEN TRUE
    ELSE IF is_winner
         THEN Max(order.queue_ahead - order.queue_consumed, 0) <= winner_queue_threshold
         ELSE TRUE

\* DeLiseFillModel::adverse_selection_filter
DeLise_adverse_selection_filter(order, is_winner) ==
    IF ~IsSome(order.filled_at_ms) THEN FALSE
    ELSE IF Unwrap(order.filled_at_ms) < config_signal_offset_ms THEN TRUE
    ELSE IF is_winner
         THEN Max(order.queue_ahead - order.queue_consumed, 0) < winner_queue_threshold
         ELSE TRUE

-----------------------------------------------------------------------------
(* src/src/replay.rs, mod tests: NeverFillModel and ImmediateFillModel *)

NeverFill_queue_ahead == 500

NeverFill_create_order(side, price, shares, s, offset_ms) ==
    [side |-> side, price |-> price, shares |-> shares, placed_at_ms |-> offset_ms,
     queue_ahead |-> NeverFill_queue_ahead, queue_consumed |-> 0,
     filled |-> FALSE, filled_at_ms |-> None]

NeverFill_process_tick(s, os, prev, us) == os

ImmediateFill_create_order(side, price, shares, s, offset_ms) ==
    [side |-> side, price |-> price, shares |-> shares, placed_at_ms |-> offset_ms,
     queue_ahead |-> 0, queue_consumed |-> 0,
     filled |-> FALSE, filled_at_ms |-> None]

ImmediateFill_process_tick(s, os, prev, us) ==
    [i \in 1..Len(os) |->
        IF ~os[i].filled /\ s.offset_ms >= os[i].placed_at_ms
        THEN [os[i] EXCEPT !.filled = TRUE, !.filled_at_ms = Some(s.offset_ms)]
        ELSE os[i]]

-----------------------------------------------------------------------------
(* src/src/fill/model.rs: the FillModel trait, dispatched on the engine's model *)

FillModels == {"delise-3rule", "never-fill", "immediate-fill"}

create_order(fm, side, price, shares, s, offset_ms) ==
    CASE fm = "delise-3rule" -> DeLise_create_order(side, price, shares, s, offset_ms)
      [] fm = "never-fill" -> NeverFill_create_order(side, price, shares, s, offset_ms)
      [] fm = "immediate-fill" -> ImmediateFill_create_order(side, price, shares, s, offset_ms)

process_tick(fm, s, os, prev, us) ==
    CASE fm = "delise-3rule" -> DeLise_process_tick(s, os, prev, us)
      [] fm = "never-fill" -> NeverFill_process_tick(s, os, prev, us)
      [] fm = "immediate-fill" -> ImmediateFill_process_tick(s, os, prev, us)

adverse_selection_filter(fm, order, is_winner) ==
    CASE fm = "delise-3rule" -> DeLise_adverse_selection_filter(order, is_winner)
      [] fm = "never-fill" -> TRUE
      [] fm = "immediate-fill" -> TRUE

\* The indices process_tick returns: the orders it marked filled, ascending.
RECURSIVE FilledFrom(_, _, _)
FilledFrom(before, after, i) ==
    IF i > Len(before) THEN <<>>
    ELSE (IF ~before[i].filled /\ after[i].filled THEN <<i>> ELSE <<>>)
         \o FilledFrom(before, after, i + 1)

\* The samples one process_tick call can draw, one per order.
SampleSets(fm, os) ==
    IF fm = "delise-3rule" THEN [1..Len(os) -> sample_uniform] ELSE {[i \in 1..Len(os) |-> 0]}

-----------------------------------------------------------------------------
(* src/src/replay.rs: ReplayEngine::run_window, the action arms *)

PlaceBid(side, price, shares) == [type |-> "PlaceBid", side |-> side, price |-> price, shares |-> shares]
Cancel(side) == [type |-> "Cancel", side |-> side]

\* Mutant of place_bid: only an order that is not cancelled blocks the side.
place_bid_unless_active(fm, st, a, s) ==
    LET idx == 1..Len(st.orders)
        already_has == \E i \in idx : st.orders[i].side = a.side /\ ~st.cancelled[i]
    IN  IF already_has THEN st
        ELSE [orders |-> Append(st.orders,
                                create_order(fm, a.side, a.price, a.shares, s, s.offset_ms)),
              cancelled |-> Append(st.cancelled, FALSE),
              signal_offset_ms |-> IF ~IsSome(st.signal_offset_ms)
                                   THEN Some(s.offset_ms) ELSE st.signal_offset_ms]

\* Mutant of place_bid: every accepted PlaceBid sets signal_offset_ms.
place_bid_resignal(fm, st, a, s) ==
    LET idx == 1..Len(st.orders)
        already_has == \E i \in idx : st.orders[i].side = a.side /\ ~st.cancelled[i]
        side_cancelled == \E i \in idx : st.orders[i].side = a.side /\ st.cancelled[i]
    IN  IF already_has THEN st
        ELSE IF side_cancelled THEN st
        ELSE [orders |-> Append(st.orders,
                                create_order(fm, a.side, a.price, a.shares, s, s.offset_ms)),
              cancelled |-> Append(st.cancelled, FALSE),
              signal_offset_ms |-> Some(s.offset_ms)]

\* The PlaceBid arm: st is [orders, cancelled, signal_offset_ms].
place_bid(fm, st, a, s) ==
    LET idx == 1..Len(st.orders)
        already_has == \E i \in idx : st.orders[i].side = a.side /\ ~st.cancelled[i]
        side_cancelled == \E i \in idx : st.orders[i].side = a.side /\ st.cancelled[i]
    IN  IF already_has THEN st
        ELSE IF side_cancelled THEN st
        ELSE [orders |-> Append(st.orders,
                                create_order(fm, a.side, a.price, a.shares, s, s.offset_ms)),
              cancelled |-> Append(st.cancelled, FALSE),
              signal_offset_ms |-> IF ~IsSome(st.signal_offset_ms)
                                   THEN Some(s.offset_ms) ELSE st.signal_offset_ms]

\* Mutant of cancel_target: a filled order can be cancelled too.
cancel_target_ignoring_fill(st, side, i) ==
    st.orders[i].side = side /\ ~st.cancelled[i]

\* The condition of the Cancel arm's loop: order i can be cancelled.
cancel_target(st, side, i) ==
    st.orders[i].side = side /\ ~st.orders[i].filled /\ ~st.cancelled[i]

\* Mutant of cancel_order: the cancelled order is not marked filled.
cancel_order_unmarked(st, a) ==
    LET hit == {i \in 1..Len(st.orders) : cancel_target(st, a.side, i)}
    IN  IF hit = {} THEN st
        ELSE LET i == CHOOSE i \in hit : \A j \in hit : i <= j
             IN  [st EXCEPT !.cancelled[i] = TRUE]

\* Mutant of cancel_order: the cancelled order is stamped like a fill, at
\* the offset it was placed at.
cancel_order_stamped(st, a) ==
    LET hit == {i \in 1..Len(st.orders) : cancel_target(st, a.side, i)}
    IN  IF hit = {} THEN st
        ELSE LET i == CHOOSE i \in hit : \A j \in hit : i <= j
             IN  [st EXCEPT !.orders[i].filled = TRUE,
                            !.orders[i].filled_at_ms = Some(st.orders[i].placed_at_ms),
                            !.cancelled[i] = TRUE]

\* The Cancel arm: the first unfilled, non-cancelled order of the side.
cancel_order(st, a) ==
    LET hit == {i \in 1..Len(st.orders) : cancel_target(st, a.side, i)}
    IN  IF hit = {} THEN st
        ELSE LET i == CHOOSE i \in hit : \A j \in hit : i <= j
             IN  [st EXCEPT !.orders[i].filled = TRUE, !.cancelled[i] = TRUE]

\* Mutant of apply_action: the fill model runs on the orders right after a
\* PlaceBid, on the tick that placed them.
apply_action_then_fill(fm, st, a, s) ==
    IF a.type = "PlaceBid"
    THEN LET placed == place_bid(fm, st, a, s)
         IN  [placed EXCEPT !.orders = process_tick(fm, s, placed.orders, s.offset_ms,
                                                    [i \in 1..Len(placed.orders) |-> 0])]
    ELSE cancel_order(st, a)

\* One iteration of `for action in &actions`.
apply_action(fm, st, a, s) ==
    IF a.type = "PlaceBid" THEN place_bid(fm, st, a, s) ELSE cancel_order(st, a)

\* The element of `actions` the loop visits at step i.
action_at(as, i) == as[i]

-----------------------------------------------------------------------------
(* src/src/replay.rs: ReplayEngine::run_window, the result *)

\* The signed term of one order.
pnl_term(order, outcome) ==
    IF matches_side(outcome, order.side)
    THEN order.shares * (100 - order.price)
    ELSE 0 - order.shares * order.price

\* Mutant of naive_pnl_from: only filled orders are counted.
RECURSIVE naive_pnl_filled_only(_, _, _, _)
naive_pnl_filled_only(os, cs, outcome, i) ==
    IF i > Len(os) THEN 0
    ELSE (IF cs[i] \/ ~os[i].filled THEN 0 ELSE pnl_term(os[i], outcome))
         + naive_pnl_filled_only(os, cs, outcome, i + 1)

\* Mutant of naive_pnl_from: cancelled orders are counted too.
RECURSIVE naive_pnl_with_cancelled(_, _, _, _)
naive_pnl_with_cancelled(os, cs, outcome, i) ==
    IF i > Len(os) THEN 0
    ELSE pnl_term(os[i], outcome) + naive_pnl_with_cancelled(os, cs, outcome, i + 1)

\* The naive PnL loop, from order i on.
RECURSIVE naive_pnl_from(_, _, _, _)
naive_pnl_from(os, cs, outcome, i) ==
    IF i > Len(os) THEN 0
    ELSE (IF cs[i] THEN 0 ELSE pnl_term(os[i], outcome))
         + naive_pnl_from(os, cs, outcome, i + 1)

\* Mutant of realistic_counts: the adverse-selection filter is not applied.
realistic_counts_unfiltered(fm, os, cs, outcome, i) ==
    /\ ~cs[i]
    /\ os[i].filled /\ IsSome(os[i].filled_at_ms)

\* Mutant of realistic_counts: an order counts whether it filled or not.
realistic_counts_unfilled(fm, os, cs, outcome, i) ==
    /\ ~cs[i]
    /\ adverse_selection_filter(fm, os[i], matches_side(outcome, os[i].side))

\* The condition under which the realistic PnL loop counts order i.
realistic_counts(fm, os, cs, outcome, i) ==
    /\ ~cs[i]
    /\ os[i].filled /\ IsSome(os[i].filled_at_ms)
    /\ adverse_selection_filter(fm, os[i], matches_side(outcome, os[i].side))

\* The realistic PnL loop, from order i on.
RECURSIVE realistic_pnl_from(_, _, _, _, _)
realistic_pnl_from(fm, os, cs, outcome, i) ==
    IF i > Len(os) THEN 0
    ELSE (IF realistic_counts(fm, os, cs, outcome, i) THEN pnl_term(os[i], outcome) ELSE 0)
         + realistic_pnl_from(fm, os, cs, outcome, i + 1)

FirstOf(S) == CHOOSE i \in S : \A j \in S : i <= j

\* Mutant of window_result: the fill metadata is taken from the first
\* non-cancelled order, filled or not.
window_result_first_live(fm, os, cs, sig, outcome) ==
    LET live == {i \in 1..Len(os) : ~cs[i]}
        fills == {i \in live : os[i].filled /\ IsSome(os[i].filled_at_ms)}
        predicted == IF live = {} THEN None ELSE Some(os[FirstOf(live)].side)
    IN  [outcome |-> outcome,
         predicted |-> predicted,
         signal_offset_ms |-> sig,
         bid_side |-> predicted,
         filled |-> fills # {},
         queue_ahead_at_place |-> IF live # {} THEN os[FirstOf(live)].queue_ahead ELSE 0,
         fill_time_ms |-> IF live # {} THEN os[FirstOf(live)].filled_at_ms ELSE None,
         correct |-> \E i \in live : matches_side(outcome, os[i].side),
         realistic_pnl |-> realistic_pnl_from(fm, os, cs, outcome, 1),
         naive_pnl |-> naive_pnl_from(os, cs, outcome, 1)]

\* The WindowResult run_window assembles.
window_result(fm, os, cs, sig, outcome) ==
    LET live == {i \in 1..Len(os) : ~cs[i]}
        fills == {i \in live : os[i].filled /\ IsSome(os[i].filled_at_ms)}
        predicted == IF live = {} THEN None ELSE Some(os[FirstOf(live)].side)
    IN  [outcome |-> outcome,
         predicted |-> predicted,
         signal_offset_ms |-> sig,
         bid_side |-> predicted,
         filled |-> fills # {},
         queue_ahead_at_place |->
             IF fills # {} THEN os[FirstOf(fills)].queue_ahead
             ELSE IF live # {} THEN os[FirstOf(live)].queue_ahead ELSE 0,
         fill_time_ms |-> IF fills # {} THEN os[FirstOf(fills)].filled_at_ms ELSE None,
         correct |-> \E i \in live : matches_side(outcome, os[i].side),
         realistic_pnl |-> realistic_pnl_from(fm, os, cs, outcome, 1),
         naive_pnl |-> naive_pnl_from(os, cs, outcome, 1)]

-----------------------------------------------------------------------------
(* The inputs of a window *)

\* SideState::default, a quiet book, a book whose ask sweeps the 0.49 bids,
\* and the same sweep with no ask size recorded.
SideDefault == [best_ask |-> None, best_ask_size |-> None, depth |-> <<>>]
SideCalm == [best_ask |-> Some(51), best_ask_size |-> Some(100),
             depth |-> <<[price |-> 49, cumulative_size |-> 200]>>]
SideSwept == [best_ask |-> Some(49), best_ask_size |-> Some(100),
              depth |-> <<[price |-> 49, cumulative_size |-> 200]>>]
SideSweptNoSize == [best_ask |-> Some(49), best_ask_size |-> None,
                    depth |-> <<[price |-> 49, cumulative_size |-> 200]>>]
SideStates == {SideDefault, SideCalm, SideSwept, SideSweptNoSize}

Offsets == {k * (config_signal_offset_ms \div 2) : k \in 0..MaxOffsetK}

\* The books of the model: the state of the Yes side and of the No side.
Books == {<<SideDefault, SideDefault>>, <<SideCalm, SideCalm>>, <<SideSwept, SideSwept>>,
          <<SideSwept, SideCalm>>, <<SideCalm, SideSweptNoSize>>}

Snapshots == {[offset_ms |-> off, yes |-> b[1], no |-> b[2]] : off \in Offsets, b \in Books}

\* The value of `snap` outside the loop body.
NoSnap == [offset_ms |-> 0, yes |-> SideDefault, no |-> SideDefault]

Prices == {49}
Shares == {10}

ActionSet == {PlaceBid(sd, p, sh) : sd \in Sides, p \in Prices, sh \in Shares}
             \cup {Cancel(sd) : sd \in Sides}

ActionLists == UNION {[1..n -> ActionSet] : n \in 0..MaxActions}

NoCall == [snap_offset_ms |-> 0, prev_offset_ms |-> 0, expected_prev_ms |-> 0, n_orders |-> 0]

Range(f) == {f[i] : i \in DOMAIN f}

-----------------------------------------------------------------------------
(* The state machine of run_window *)

\* The locals of run_window before the loop, and the history variables.
LocalsInit ==
    /\ snap = NoSnap
    /\ tick = 0
    /\ prev_offset_ms = 0
    /\ orders = <<>>
    /\ cancelled = <<>>
    /\ signal_offset_ms = None
    /\ actions = <<>>
    /\ ai = 1
    /\ filled_indices = <<>>
    /\ result = None
    /\ orders2 = <<>>
    /\ cancelled2 = <<>>
    /\ signal_offset_ms2 = None
    /\ result2 = None
    /\ offsets_order = "strict"
    /\ pt_call = NoCall
    /\ last_offset = None
    /\ placed_tick = <<>>
    /\ seen_tick = <<>>
    /\ applied = <<>>
    /\ calls = <<>>
    /\ race = {}

\* Nothing has been handed to a fill model driven on its own.
ModelIdle ==
    /\ orders_before = <<>>
    /\ us_drawn = <<>>

\* run_all is not running.
RunAllIdle ==
    /\ run_markets = <<>>
    /\ run_i = 1
    /\ run_results = <<>>
    /\ run_built = 0
    /\ run_log = <<>>

\* compute_fade_signals has not been called.
FadeIdle ==
    /\ fade_markets = <<>>
    /\ min_streak = 1
    /\ max_streak = 1
    /\ fade_signals = None
    /\ fade_permuted = <<>>
    /\ fade_signals_permuted = None

\* bid_depth_at has not been called on its own.
DepthIdle ==
    /\ ladder = <<>>
    /\ depth_price = 0
    /\ depth_returned = None

\* Report::from_results has not been called.
ReportIdle ==
    /\ report_results = <<>>
    /\ report = None

\* MonteCarloSummary::from_reports has not been called.
SummaryIdle ==
    /\ summary_pnls = <<>>
    /\ summary = None

\* RhaiStrategy::on_tick has not been called.
ScriptIdle ==
    /\ script_tick = 0
    /\ script_returned = <<>>
    /\ script_actions = <<>>
    /\ script_failed = 0

\* cmd_run has not been called.
CmdIdle ==
    /\ cmd_args = <<>>
    /\ cmd_events = <<>>
    /\ cmd_error = None
    /\ cmd_built = <<>>

\* ticks_to_snapshots has not been called.
TicksIdle ==
    /\ ticks_market_id = ""
    /\ book_ticks = <<>>
    /\ ticks_snapshots = None

\* No PostBothCancelLoser has been built.
PclIdle ==
    /\ pcl_min_bps = 0
    /\ pcl_strategy = <<>>
    /\ pcl_windows = 0
    /\ pcl_history = <<>>

\* No built-in strategy has been built.
StratIdle ==
    /\ strat_kind = ""
    /\ strat_state = <<>>
    /\ strat_fresh = <<>>
    /\ strat_windows = 0
    /\ strat_first = <<>>
    /\ strat_history = <<>>

\* None of the functions of newvars has been called, but for those of group g.
NewIdleBut(g) ==
    /\ IF g = "strat" THEN TRUE ELSE StratIdle
    /\ IF g = "pcl" THEN TRUE ELSE PclIdle
    /\ IF g = "ticks" THEN TRUE ELSE TicksIdle
    /\ IF g = "cmd" THEN TRUE ELSE CmdIdle
    /\ IF g = "script" THEN TRUE ELSE ScriptIdle
    /\ IF g = "summary" THEN TRUE ELSE SummaryIdle
    /\ IF g = "report" THEN TRUE ELSE ReportIdle

\* The variables of newvars stay as they are, but for those of group g.
KeepNewBut(g) ==
    /\ IF g = "strat" THEN TRUE ELSE UNCHANGED stratvars
    /\ IF g = "pcl" THEN TRUE ELSE UNCHANGED pclvars
    /\ IF g = "ticks" THEN TRUE ELSE UNCHANGED ticksvars
    /\ IF g = "cmd" THEN TRUE ELSE UNCHANGED cmdvars
    /\ IF g = "script" THEN TRUE ELSE UNCHANGED scriptvars
    /\ IF g = "summary" THEN TRUE ELSE UNCHANGED summaryvars
    /\ IF g = "report" THEN TRUE ELSE UNCHANGED reportvars

ExtInit ==
    /\ ModelIdle
    /\ RunAllIdle
    /\ FadeIdle
    /\ DepthIdle
    /\ NewIdleBut("none")

\* What a function called on its own starts from, its own variables aside.
RestInit ==
    /\ fill_model = "delise-3rule"
    /\ market_outcome = None
    /\ snapshots_empty = FALSE
    /\ LocalsInit
    /\ ModelIdle
    /\ RunAllIdle
    /\ FadeIdle
    /\ DepthIdle

Init ==
    /\ pc = "start"
    /\ fill_model \in FillModels
    /\ market_outcome \in {None} \cup {Some(o) : o \in Outcomes}
    /\ snapshots_empty \in BOOLEAN
    /\ LocalsInit
    /\ ExtInit

\* Mutant of returns_none: an empty snapshot list does not end the run.
returns_none_without_outcome(empty, outcome) == ~IsSome(outcome)

\* The condition of the early returns: `snapshots.is_empty()`, then the `?`
\* on market.outcome.
returns_none(empty, outcome) == empty \/ ~IsSome(outcome)

\* The early returns of run_window: no snapshot, or no outcome.
ReturnNone ==
    /\ pc = "start"
    /\ returns_none(snapshots_empty, market_outcome)
    /\ pc' = "done"
    /\ result' = None
    /\ UNCHANGED <<fill_model, market_outcome, snap, tick, prev_offset_ms, orders, cancelled,
                   signal_offset_ms, actions, ai, filled_indices, run2vars,
                   offsets_order, pt_call, last_offset, placed_tick, seen_tick, applied,
                   calls, race>>
    /\ UNCHANGED extvars

\* reset, on_market_open(snapshots[0]) and the locals before the loop.
Start ==
    /\ pc = "start"
    /\ ~returns_none(snapshots_empty, market_outcome)
    /\ \E s0 \in Snapshots :
        /\ snap' = s0
        /\ prev_offset_ms' = s0.offset_ms
    /\ pc' = "fill"
    /\ calls' = <<"reset", "on_market_open">>
    /\ UNCHANGED <<fill_model, market_outcome, tick, orders, cancelled,
                   signal_offset_ms, actions, ai, filled_indices, result, run2vars,
                   offsets_order, pt_call, last_offset, placed_tick, seen_tick, applied, race>>
    /\ UNCHANGED extvars

\* Mutant of prev_arg: prev_offset_ms is updated before the call.
prev_arg_updated(prev, s) == s.offset_ms

\* The value of prev_offset_ms handed to process_tick for snapshot s.
prev_arg(prev, s) == prev

\* How the offsets consumed so far are ordered once offset `off` follows.
OrderAfter(kind, last, off) ==
    IF ~IsSome(last) THEN kind
    ELSE IF off > Unwrap(last) THEN kind
    ELSE IF off = Unwrap(last) THEN (IF kind = "strict" THEN "nondecreasing" ELSE kind)
    ELSE "arbitrary"

\* The head of the loop body: process_tick on the next snapshot, then
\* prev_offset_ms = snap.offset_ms. All of it but the orders of run 2.
ProcessTickCore(s, us) ==
    /\ pc = "fill"
    /\ tick < MaxTicks
    /\ orders' = process_tick(fill_model, s, orders, prev_arg(prev_offset_ms, s), us)
    /\ filled_indices' = FilledFrom(orders, orders', 1)
    /\ prev_offset_ms' = s.offset_ms
    /\ snap' = s
    /\ tick' = tick + 1
    /\ pc' = "strategy"
    /\ pt_call' = [snap_offset_ms |-> s.offset_ms,
                   prev_offset_ms |-> prev_arg(prev_offset_ms, s),
                   expected_prev_ms |-> IF IsSome(last_offset) THEN Unwrap(last_offset)
                                        ELSE s.offset_ms,
                   n_orders |-> Len(orders)]
    /\ last_offset' = Some(s.offset_ms)
    /\ offsets_order' = OrderAfter(offsets_order, last_offset, s.offset_ms)
    /\ seen_tick' = [i \in 1..Len(orders) |-> IF seen_tick[i] = 0 THEN tick + 1 ELSE seen_tick[i]]
    /\ calls' = <<"process_tick">>
    /\ UNCHANGED <<fill_model, market_outcome, cancelled, signal_offset_ms, actions, ai,
                   result, placed_tick, applied, race>>
    /\ UNCHANGED extvars

\* Mutant of NextSnapshots: the offsets come in any order.
NextSnapshotsAnyOffset == IF tick = 0 THEN {snap} ELSE Snapshots

\* The snapshots the loop can see next: the first one is snapshots[0], and the
\* snapshot loader hands over offsets that never decrease.
NextSnapshots ==
    IF tick = 0 THEN {snap} ELSE {s \in Snapshots : s.offset_ms >= Unwrap(last_offset)}

ProcessTick ==
    /\ \E s \in NextSnapshots : \E us \in SampleSets(fill_model, orders) :
          ProcessTickCore(s, us)
    /\ UNCHANGED run2vars

\* What the end of the loop body leaves behind: the locals of the body go.
EndOfTick ==
    /\ pc' = "fill"
    /\ snap' = NoSnap
    /\ actions' = <<>>
    /\ ai' = 1
    /\ filled_indices' = <<>>
    /\ pt_call' = NoCall
    /\ applied' = <<>>
    /\ calls' = <<>>

\* strategy.on_tick(snap): any list of actions.
OnTick ==
    /\ pc = "strategy"
    /\ \E as \in ActionLists :
        /\ race' = race \cup {[idx |-> i, offset_ms |-> snap.offset_ms] :
                                i \in {j \in Range(filled_indices) :
                                          Cancel(orders[j].side) \in Range(as)}}
        /\ IF as = <<>>
           THEN EndOfTick
           ELSE /\ pc' = "apply"
                /\ actions' = as
                /\ ai' = 1
                /\ calls' = Append(calls, "on_tick")
                /\ UNCHANGED <<snap, filled_indices, pt_call, applied>>
    /\ UNCHANGED <<fill_model, market_outcome, tick, prev_offset_ms, orders, cancelled,
                   signal_offset_ms, result, run2vars, offsets_order, last_offset,
                   placed_tick, seen_tick>>
    /\ UNCHANGED extvars

\* One iteration of the loop over the actions, but for run 2.
ApplyActionCore ==
    /\ pc = "apply"
    /\ ai <= Len(actions)
    /\ LET a == action_at(actions, ai)
           st == apply_action(fill_model,
                              [orders |-> orders, cancelled |-> cancelled,
                               signal_offset_ms |-> signal_offset_ms], a, snap)
           grown == Len(st.orders) > Len(orders)
       IN  /\ orders' = st.orders
           /\ cancelled' = st.cancelled
           /\ signal_offset_ms' = st.signal_offset_ms
           /\ placed_tick' = IF grown THEN Append(placed_tick, tick) ELSE placed_tick
           /\ seen_tick' = IF grown THEN Append(seen_tick, 0) ELSE seen_tick
           /\ IF ai = Len(actions)
              THEN EndOfTick
              ELSE /\ ai' = ai + 1
                   /\ applied' = Append(applied, a)
                   /\ calls' = Append(calls, a.type)
                   /\ UNCHANGED <<pc, snap, actions, filled_indices, pt_call>>
    /\ UNCHANGED <<fill_model, market_outcome, tick, prev_offset_ms, result,
                   offsets_order, last_offset, race>>
    /\ UNCHANGED extvars

ApplyAction ==
    /\ ApplyActionCore
    /\ UNCHANGED run2vars

\* The loop is over: the PnL and the WindowResult.
Finish ==
    /\ pc = "fill"
    /\ tick >= 1
    /\ pc' = "done"
    /\ result' = Some(window_result(fill_model, orders, cancelled, signal_offset_ms,
                                    Unwrap(market_outcome)))
    /\ UNCHANGED <<fill_model, market_outcome, snap, tick, prev_offset_ms, orders, cancelled,
                   signal_offset_ms, actions, ai, filled_indices, run2vars,
                   offsets_order, pt_call, last_offset, placed_tick, seen_tick, applied,
                   calls, race>>
    /\ UNCHANGED extvars

Next == ReturnNone \/ Start \/ ProcessTick \/ OnTick \/ ApplyAction \/ Finish

Spec == Init /\ [][Next]_vars

-----------------------------------------------------------------------------
(* run_window on a snapshot list in any order: the slice is taken as it is   *)
(* given, and nothing in run_window or process_tick looks at the order of    *)
(* the offsets.                                                              *)

AnyOrderSnapshots == {s \in Snapshots : s.yes = s.no}

AnyOrderInit ==
    /\ Init
    /\ fill_model = "delise-3rule"

AnyOrderStart ==
    /\ Start
    /\ snap' \in AnyOrderSnapshots

AnyOrderProcessTick ==
    /\ \E s \in (IF tick = 0 THEN {snap} ELSE AnyOrderSnapshots) :
          \E us \in SampleSets(fill_model, orders) : ProcessTickCore(s, us)
    /\ UNCHANGED run2vars

AnyOrderNext ==
    \/ ReturnNone
    \/ AnyOrderStart
    \/ AnyOrderProcessTick
    \/ OnTick
    \/ ApplyAction
    \/ Finish

AnyOrderSpec == AnyOrderInit /\ [][AnyOrderNext]_vars

-----------------------------------------------------------------------------
(* Two runs of the same window: the same market, snapshots and strategy (so  *)
(* the same actions on every tick: on_tick sees the snapshot only), each run *)
(* drawing its own samples from sample_uniform.                              *)

PairSnapshots == {s \in Snapshots : s.yes = s.no}

PairNextSnapshots ==
    IF tick = 0 THEN {snap} ELSE {s \in PairSnapshots : s.offset_ms >= Unwrap(last_offset)}

PairInit ==
    /\ Init
    /\ fill_model = "delise-3rule"

PairStart ==
    /\ Start
    /\ snap' \in PairSnapshots

PairProcessTick ==
    \E s \in PairNextSnapshots :
        /\ \E us \in SampleSets(fill_model, orders) : ProcessTickCore(s, us)
        /\ \E us2 \in SampleSets(fill_model, orders2) :
              orders2' = process_tick(fill_model, s, orders2, prev_arg(prev_offset_ms, s), us2)
        /\ UNCHANGED <<cancelled2, signal_offset_ms2, result2>>

PairApplyAction ==
    /\ ApplyActionCore
    /\ LET st2 == apply_action(fill_model,
                               [orders |-> orders2, cancelled |-> cancelled2,
                                signal_offset_ms |-> signal_offset_ms2],
                               action_at(actions, ai), snap)
       IN  /\ orders2' = st2.orders
           /\ cancelled2' = st2.cancelled
           /\ signal_offset_ms2' = st2.signal_offset_ms
    /\ UNCHANGED result2

PairFinish ==
    /\ pc = "fill"
    /\ tick >= 1
    /\ pc' = "done"
    /\ result' = Some(window_result(fill_model, orders, cancelled, signal_offset_ms,
                                    Unwrap(market_outcome)))
    /\ result2' = Some(window_result(fill_model, orders2, cancelled2, signal_offset_ms2,
                                     Unwrap(market_outcome)))
    /\ UNCHANGED <<fill_model, market_outcome, snap, tick, prev_offset_ms, orders, cancelled,
                   signal_offset_ms, actions, ai, filled_indices, orders2, cancelled2,
                   signal_offset_ms2, offsets_order, pt_call, last_offset, placed_tick,
                   seen_tick, applied, calls, race>>
    /\ UNCHANGED extvars

PairNext == ReturnNone \/ PairStart \/ PairProcessTick \/ OnTick \/ PairApplyAction \/ PairFinish

PairSpec == PairInit /\ [][PairNext]_vars

-----------------------------------------------------------------------------
(* The DeLise fill model driven on its own: create_order and process_tick   *)
(* called with any snapshot and any prev_offset_ms, as a caller of the      *)
(* FillModel trait may.                                                     *)

\* Books with 150 and 120 shares resting at 0.49, next to those of the windows.
SideThin == [best_ask |-> Some(51), best_ask_size |-> Some(100),
             depth |-> <<[price |-> 49, cumulative_size |-> 150]>>]
SideThinner == [best_ask |-> Some(51), best_ask_size |-> Some(100),
                depth |-> <<[price |-> 49, cumulative_size |-> 120]>>]

\* The snapshots orders are created on: the opening one, with nothing, 120,
\* 150 or 200 shares ahead.
CreateSnapshots ==
    {[offset_ms |-> 0, yes |-> b, no |-> b] : b \in {SideDefault, SideCalm, SideThin, SideThinner}}

\* The snapshots process_tick is called with: quiet, swept, swept with no size.
TickSnapshots ==
    {[offset_ms |-> off, yes |-> b, no |-> b] :
        off \in Offsets, b \in {SideCalm, SideSwept, SideSweptNoSize}}

DeLiseInit ==
    /\ pc = "model"
    /\ fill_model = "delise-3rule"
    /\ market_outcome = None
    /\ snapshots_empty = FALSE
    /\ LocalsInit
    /\ ExtInit

\* fill_model.create_order(side, price, shares, snap, snap.offset_ms)
DeLiseCreateOrder ==
    /\ Len(orders) < MaxModelOrders
    /\ tick = 0
    /\ \E s \in CreateSnapshots : \E sd \in Sides : \E p \in Prices : \E sh \in Shares :
          /\ orders' = Append(orders, create_order(fill_model, sd, p, sh, s, s.offset_ms))
          /\ snap' = s
    /\ orders_before' = orders
    /\ us_drawn' = <<>>
    /\ filled_indices' = <<>>
    /\ calls' = <<"create_order">>
    /\ UNCHANGED <<pc, fill_model, market_outcome, snapshots_empty, tick, prev_offset_ms,
                   cancelled, signal_offset_ms, actions, ai, result, run2vars, offsets_order,
                   pt_call, last_offset, placed_tick, seen_tick, applied, race>>
    /\ UNCHANGED <<run_markets, run_i, run_results, run_built, run_log,
                   fade_markets, min_streak, max_streak, fade_signals, fade_permuted,
                   fade_signals_permuted, ladder, depth_price, depth_returned, newvars>>

\* fill_model.process_tick(snap, &mut orders, prev_offset_ms)
DeLiseProcessTick ==
    /\ tick < MaxModelTicks
    /\ orders # <<>>
    /\ \E s \in TickSnapshots : \E prev \in Offsets :
       \E us \in SampleSets(fill_model, orders) :
          /\ orders' = process_tick(fill_model, s, orders, prev, us)
          /\ snap' = s
          /\ prev_offset_ms' = prev
          /\ us_drawn' = us
    /\ orders_before' = orders
    /\ filled_indices' = FilledFrom(orders, orders', 1)
    /\ tick' = tick + 1
    /\ calls' = <<"process_tick">>
    /\ UNCHANGED <<pc, fill_model, market_outcome, snapshots_empty,
                   cancelled, signal_offset_ms, actions, ai, result, run2vars, offsets_order,
                   pt_call, last_offset, placed_tick, seen_tick, applied, race>>
    /\ UNCHANGED <<run_markets, run_i, run_results, run_built, run_log,
                   fade_markets, min_streak, max_streak, fade_signals, fade_permuted,
                   fade_signals_permuted, ladder, depth_price, depth_returned, newvars>>

DeLiseNext == DeLiseCreateOrder \/ DeLiseProcessTick

DeLiseSpec == DeLiseInit /\ [][DeLiseNext]_vars

-----------------------------------------------------------------------------
(* src/src/replay.rs: ReplayEngine::run_all. A market of the list carries   *)
(* what snapshots_fn returns for its id: an error, an empty list or a list  *)
(* with snapshots. run_window is taken by its early returns; its result is  *)
(* known by the market and the strategy it ran with.                        *)

Loads == {"err", "empty", "snapshots"}

RunMarkets ==
    UNION {{[i \in 1..n |-> [id |-> i, outcome |-> outs[i], load |-> lds[i]]] :
               outs \in [1..n -> {None} \cup {Some(o) : o \in Outcomes}],
               lds \in [1..n -> Loads]} : n \in 0..MaxMarkets}

RunAllInit ==
    /\ pc = "run_all"
    /\ fill_model \in FillModels
    /\ market_outcome = None
    /\ snapshots_empty = FALSE
    /\ LocalsInit
    /\ ModelIdle
    /\ FadeIdle
    /\ DepthIdle
    /\ NewIdleBut("none")
    /\ run_markets \in RunMarkets
    /\ run_i = 1
    /\ run_results = <<>>
    /\ run_built = 0
    /\ run_log = <<>>

\* Mutant of after_load_error: a load error ends the loop.
after_load_error_break(i, total) == total + 1

\* The Err arm of the match on snapshots_fn: `continue`.
after_load_error(i, total) == i + 1

\* strategy_fn(): the strategy built when `built` were built before.
strategy_for(built) == built + 1

run_unchanged ==
    UNCHANGED <<fill_model, market_outcome, snapshots_empty, snap, tick, prev_offset_ms,
                orders, cancelled, signal_offset_ms, actions, ai, filled_indices, result,
                run2vars, offsets_order, pt_call, last_offset, placed_tick, seen_tick,
                applied, calls, race, orders_before, us_drawn, run_markets,
                fade_markets, min_streak, max_streak, fade_signals, fade_permuted,
                fade_signals_permuted, ladder, depth_price, depth_returned, newvars>>

\* An iteration whose snapshots_fn call fails.
RunAllLoadError ==
    /\ pc = "run_all"
    /\ run_i <= Len(run_markets)
    /\ run_markets[run_i].load = "err"
    /\ run_i' = after_load_error(run_i, Len(run_markets))
    /\ UNCHANGED <<pc, run_results, run_built, run_log>>
    /\ run_unchanged

\* An iteration whose snapshots_fn call succeeds: strategy_fn, run_window and
\* the push of its result if it has one.
RunAllWindow ==
    /\ pc = "run_all"
    /\ run_i <= Len(run_markets)
    /\ run_markets[run_i].load # "err"
    /\ LET market == run_markets[run_i]
           strategy == strategy_for(run_built)
           window == [market_id |-> market.id, strategy |-> strategy]
       IN  /\ run_built' = run_built + 1
           /\ run_log' = Append(run_log, window)
           /\ run_results' = IF returns_none(market.load = "empty", market.outcome)
                              THEN run_results
                              ELSE Append(run_results, window)
    /\ run_i' = run_i + 1
    /\ UNCHANGED pc
    /\ run_unchanged

\* The loop is over: `results` is returned.
RunAllReturn ==
    /\ pc = "run_all"
    /\ run_i > Len(run_markets)
    /\ pc' = "returned"
    /\ UNCHANGED <<run_i, run_results, run_built, run_log>>
    /\ run_unchanged

RunAllNext == RunAllLoadError \/ RunAllWindow \/ RunAllReturn

RunAllSpec == RunAllInit /\ [][RunAllNext]_vars

-----------------------------------------------------------------------------
(* src/src/strategies/fade.rs: compute_fade_signals. A market is            *)
(* [id, category, duration_secs, open_ts, outcome]; ids are unique. The map *)
(* returned is a function from market ids to sides.                         *)

\* `group.sort_by_key(|m| m.open_ts)`: a stable sort, by insertion.
RECURSIVE sort_by_open_ts(_)
sort_by_open_ts(group) ==
    IF group = <<>> THEN <<>>
    ELSE LET sorted == sort_by_open_ts(SubSeq(group, 1, Len(group) - 1))
             m == group[Len(group)]
             k == Cardinality({j \in 1..Len(sorted) : sorted[j].open_ts <= m.open_ts})
         IN  SubSeq(sorted, 1, k) \o <<m>> \o SubSeq(sorted, k + 1, Len(sorted))

\* The markets pushed under one key of `groups`, in input order.
group_of(markets, category, duration) ==
    SelectSeq(markets, LAMBDA m : /\ m.outcome # None
                                  /\ m.category = category
                                  /\ m.duration_secs = duration)

\* The keys of `groups`.
group_keys(markets) ==
    {<<markets[i].category, markets[i].duration_secs>> :
        i \in {j \in 1..Len(markets) : markets[j].outcome # None}}

\* The loop over history.iter().rev(): the entries from j down to lo that
\* are counted before a break; prev_ts is the open_ts counted last.
RECURSIVE count_streak(_, _, _, _, _, _)
count_streak(group, j, lo, dir, prev_ts, duration) ==
    IF j < lo THEN 0
    ELSE IF Unwrap(group[j].outcome) # dir THEN 0
    ELSE IF IsSome(prev_ts) /\ Unwrap(prev_ts) - group[j].open_ts > duration + 60 THEN 0
    ELSE 1 + count_streak(group, j - 1, lo, dir, Some(group[j].open_ts), duration)

\* Mutant of max_history: the history holds max_streak markets.
max_history_tight(maxs) == maxs

\* `let max_history = max_streak + 5`
max_history(maxs) == maxs + 5

\* The streak counted at market i of a sorted group: history holds the last
\* max_history markets up to i.
streak_at(group, i, maxs, duration) ==
    LET lo == IF i > max_history(maxs) THEN i - max_history(maxs) + 1 ELSE 1
    IN  count_streak(group, i, lo, Unwrap(group[i].outcome), None, duration)

\* Mutant of streak_in_range: a streak longer than max_streak signals too.
streak_in_range_unbounded(streak, mins, maxs) == streak >= mins

\* `streak >= min_streak && streak <= max_streak`
streak_in_range(streak, mins, maxs) == streak >= mins /\ streak <= maxs

\* Up (a YES outcome) fades to No, Down (a NO outcome) to Yes.
fade_side(outcome) == IF outcome = "YES" THEN "No" ELSE "Yes"

\* The (id, side) pairs one group inserts into `signals`.
group_signals(unsorted, duration, mins, maxs) ==
    LET group == sort_by_open_ts(unsorted)
    IN  {<<group[i + 1].id, fade_side(Unwrap(group[i].outcome))>> :
            i \in {j \in 1..(Len(group) - 1) :
                      streak_in_range(streak_at(group, j, maxs, duration), mins, maxs)}}

\* compute_fade_signals(markets, min_streak, max_streak)
compute_fade_signals(markets, mins, maxs) ==
    LET pairs == UNION {group_signals(group_of(markets, key[1], key[2]), key[2], mins, maxs) :
                           key \in group_keys(markets)}
    IN  [id \in {pr[1] : pr \in pairs} |-> (CHOOSE pr \in pairs : pr[1] = id)[2]]

\* Two categories of 5-minute markets and one of 15-minute markets.
FadeKeys == {<<"btc", 300>>, <<"eth", 300>>, <<"btc", 900>>}

\* Opening times 300 s apart, then 361 s apart: one second more than a
\* 5-minute group tolerates.
FadeOpenTs == {0, 300, 661}

\* The lists of up to `most` markets, ids in list order.
FadeMarketLists(most) ==
    UNION {{[i \in 1..n |-> [id |-> i, category |-> keys[i][1], duration_secs |-> keys[i][2],
                             open_ts |-> ts[i], outcome |-> outs[i]]] :
               keys \in [1..n -> FadeKeys], ts \in [1..n -> FadeOpenTs],
               outs \in [1..n -> {None} \cup {Some(o) : o \in Outcomes}]} :
           n \in 0..most}

\* The permutations of a list.
PermutationsOf(s) ==
    {[i \in 1..Len(s) |-> s[f[i]]] :
        f \in {g \in [1..Len(s) -> 1..Len(s)] : \A i, j \in 1..Len(s) : i # j => g[i] # g[j]}}

FadeInit ==
    /\ pc = "fade"
    /\ fill_model = "delise-3rule"
    /\ market_outcome = None
    /\ snapshots_empty = FALSE
    /\ LocalsInit
    /\ ModelIdle
    /\ RunAllIdle
    /\ DepthIdle
    /\ NewIdleBut("none")
    /\ fade_markets \in FadeMarketLists(MaxFadeMarkets)
    /\ min_streak \in 1..MaxStreak
    /\ max_streak \in 1..MaxStreak
    /\ fade_signals = None
    /\ fade_permuted = <<>>
    /\ fade_signals_permuted = None

\* The call on the list, and the call on a permutation of it.
ComputeFadeSignals ==
    /\ pc = "fade"
    /\ pc' = "fade_done"
    /\ fade_signals' = Some(compute_fade_signals(fade_markets, min_streak, max_streak))
    /\ \E perm \in PermutationsOf(fade_markets) :
          /\ fade_permuted' = perm
          /\ fade_signals_permuted' = Some(compute_fade_signals(perm, min_streak, max_streak))
    /\ UNCHANGED <<fill_model, market_outcome, snapshots_empty, snap, tick, prev_offset_ms,
                   orders, cancelled, signal_offset_ms, actions, ai, filled_indices, result,
                   run2vars, offsets_order, pt_call, last_offset, placed_tick, seen_tick,
                   applied, calls, race, orders_before, us_drawn,
                   run_markets, run_i, run_results, run_built, run_log,
                   fade_markets, min_streak, max_streak, ladder, depth_price, depth_returned,
                   newvars>>

FadeNext == ComputeFadeSignals

FadeSpec == FadeInit /\ [][FadeNext]_vars

\* Lists of MaxHistoryMarkets resolved markets of one group, 300 s apart, but
\* for one place at most where the next market opens 361 s later.
LongFadeLists ==
    {[i \in 1..MaxHistoryMarkets |->
         [id |-> i, category |-> "btc", duration_secs |-> 300,
          open_ts |-> 300 * (i - 1) + (IF gap # 0 /\ i > gap THEN 61 ELSE 0),
          outcome |-> Some(outs[i])]] :
        outs \in [1..MaxHistoryMarkets -> Outcomes], gap \in 0..(MaxHistoryMarkets - 1)}

HistoryInit ==
    /\ pc = "history"
    /\ fill_model = "delise-3rule"
    /\ market_outcome = None
    /\ snapshots_empty = FALSE
    /\ LocalsInit
    /\ ModelIdle
    /\ RunAllIdle
    /\ DepthIdle
    /\ NewIdleBut("none")
    /\ fade_markets \in LongFadeLists
    /\ min_streak \in 1..MaxStreak
    /\ max_streak \in 1..MaxStreak
    /\ fade_signals = None
    /\ fade_permuted = <<>>
    /\ fade_signals_permuted = None

\* The call on a list that is longer than the history.
HistoryCompute ==
    /\ pc = "history"
    /\ pc' = "history_done"
    /\ fade_signals' = Some(compute_fade_signals(fade_markets, min_streak, max_streak))
    /\ UNCHANGED <<fill_model, market_outcome, snapshots_empty, snap, tick, prev_offset_ms,
                   orders, cancelled, signal_offset_ms, actions, ai, filled_indices, result,
                   run2vars, offsets_order, pt_call, last_offset, placed_tick, seen_tick,
                   applied, calls, race, orders_before, us_drawn,
                   run_markets, run_i, run_results, run_built, run_log,
                   fade_markets, min_streak, max_streak, fade_permuted, fade_signals_permuted,
                   ladder, depth_price, depth_returned, newvars>>

HistoryNext == HistoryCompute

HistorySpec == HistoryInit /\ [][HistoryNext]_vars

-----------------------------------------------------------------------------
(* src/src/types.rs: SideState::bid_depth_at called on its own. Prices are  *)
(* whole cents, so two prices within EPSILON = 1e-9 of each other are equal. *)

DepthPrices == {48, 49, 50}
DepthSizes == {100, 200}

\* The depth ladders: up to MaxRungs levels in any order, prices and sizes
\* free (a price may come twice).
Ladders ==
    UNION {[1..n -> [price : DepthPrices, cumulative_size : DepthSizes]] : n \in 0..MaxRungs}

DepthInit ==
    /\ pc = "depth"
    /\ fill_model = "delise-3rule"
    /\ market_outcome = None
    /\ snapshots_empty = FALSE
    /\ LocalsInit
    /\ ModelIdle
    /\ RunAllIdle
    /\ FadeIdle
    /\ NewIdleBut("none")
    /\ ladder \in Ladders
    /\ depth_price \in DepthPrices \cup {51}
    /\ depth_returned = None

\* self.bid_depth_at(price)
BidDepthAt ==
    /\ pc = "depth"
    /\ pc' = "depth_done"
    /\ depth_returned' = Some(bid_depth_at([SideDefault EXCEPT !.depth = ladder], depth_price))
    /\ UNCHANGED <<fill_model, market_outcome, snapshots_empty, snap, tick, prev_offset_ms,
                   orders, cancelled, signal_offset_ms, actions, ai, filled_indices, result,
                   run2vars, offsets_order, pt_call, last_offset, placed_tick, seen_tick,
                   applied, calls, race, orders_before, us_drawn,
                   run_markets, run_i, run_results, run_built, run_log,
                   fade_markets, min_streak, max_streak, fade_signals, fade_permuted,
                   fade_signals_permuted, ladder, depth_price, newvars>>

DepthNext == BidDepthAt

DepthSpec == DepthInit /\ [][DepthNext]_vars

-----------------------------------------------------------------------------
(* src/src/report.rs: Report::from_results. An f64 is [finite, value]: a    *)
(* finite value (rates in parts per Scale, amounts as in the windows), or   *)
(* what a division by zero leaves, NaN for 0/0 and an infinity otherwise.   *)

Finite(v) == [finite |-> TRUE, value |-> v]
NaN == [finite |-> FALSE, value |-> 0]
Infinity == [finite |-> FALSE, value |-> 1]

\* n as f64 / d as f64, the quotient in units of 1/unit.
fdiv(n, d, unit) ==
    IF d # 0 THEN Finite((n * unit) \div d)
    ELSE IF n = 0 THEN NaN ELSE Infinity

\* Mutant of guarded_div: the division is made whatever the denominator.
unguarded_div(n, d, unit) == fdiv(n, d, unit)

\* `if d > 0 { n / d } else { 0.0 }`
guarded_div(n, d, unit) == IF d > 0 THEN fdiv(n, d, unit) ELSE Finite(0)

\* The sum of f(r) over the elements of a list.
RECURSIVE sum_seq(_)
sum_seq(ns) == IF ns = <<>> THEN 0 ELSE Head(ns) + sum_seq(Tail(ns))

sum_of(rs, f(_)) == sum_seq([i \in 1..Len(rs) |-> f(rs[i])])

count_of(rs, Test(_)) == Len(SelectSeq(rs, Test))

\* Mutant of realistic_correct_of: a correct window counts, filled or not.
correct_filled_or_not(traded) == count_of(traded, LAMBDA r : r.correct)

\* `traded.iter().filter(|r| r.filled && r.correct).count()`
realistic_correct_of(traded) == count_of(traded, LAMBDA r : r.filled /\ r.correct)

\* Report::from_results(results, ..)
from_results(results) ==
    LET traded == SelectSeq(results, LAMBDA r : IsSome(r.bid_side))
        trades_taken == Len(traded)
        fills == count_of(traded, LAMBDA r : r.filled)
        naive_correct == count_of(traded, LAMBDA r : r.correct)
        realistic_correct == realistic_correct_of(traded)
        naive_total_pnl == sum_of(traded, LAMBDA r : r.naive_pnl)
        realistic_total_pnl == sum_of(traded, LAMBDA r : r.realistic_pnl)
        fill_times == SelectSeq(traded, LAMBDA r : IsSome(r.fill_time_ms))
    IN  [total_windows |-> Len(results),
         trades_taken |-> trades_taken,
         fills |-> fills,
         correct |-> realistic_correct,
         skipped |-> Len(results) - trades_taken,
         fill_rate |-> guarded_div(fills, trades_taken, Scale),
         naive_win_rate |-> guarded_div(naive_correct, trades_taken, Scale),
         realistic_win_rate |-> guarded_div(realistic_correct, fills, Scale),
         naive_total_pnl |-> naive_total_pnl,
         realistic_total_pnl |-> realistic_total_pnl,
         phantom_fill_gap |-> naive_total_pnl - realistic_total_pnl,
         avg_naive_pnl |-> guarded_div(naive_total_pnl, trades_taken, 1),
         avg_realistic_pnl |-> guarded_div(realistic_total_pnl, trades_taken, 1),
         avg_queue_ahead |->
             guarded_div(sum_of(traded, LAMBDA r : r.queue_ahead_at_place), trades_taken, 1),
         avg_fill_time_ms |->
             guarded_div(sum_of(fill_times, LAMBDA r : Unwrap(r.fill_time_ms)),
                         Len(fill_times), 1)]

\* A WindowResult, by the fields from_results reads.
WindowOf(side, filled, correct, naive, realistic, queue, time) ==
    [bid_side |-> side, filled |-> filled, correct |-> correct, naive_pnl |-> naive,
     realistic_pnl |-> realistic, queue_ahead_at_place |-> queue, fill_time_ms |-> time]

\* The windows of the model: no order placed; an open order on the winning
\* and on the losing side; a fill on the winning side, counted and filtered
\* out; a fill on the losing side.
ReportWindows ==
    {WindowOf(None, FALSE, FALSE, 0, 0, 0, None),
     WindowOf(Some("Yes"), FALSE, TRUE, 510, 0, 200, None),
     WindowOf(Some("No"), FALSE, FALSE, 0 - 490, 0, 200, None),
     WindowOf(Some("Yes"), TRUE, TRUE, 510, 510, 0, Some(45000)),
     WindowOf(Some("Yes"), TRUE, TRUE, 510, 0, 200, Some(90000)),
     WindowOf(Some("No"), TRUE, FALSE, 0 - 490, 0 - 490, 0, Some(90000))}

ReportInit ==
    /\ pc = "report"
    /\ RestInit
    /\ NewIdleBut("report")
    /\ report_results \in UNION {[1..n -> ReportWindows] : n \in 0..MaxResults}
    /\ report = None

FromResults ==
    /\ pc = "report"
    /\ pc' = "report_done"
    /\ report' = Some(from_results(report_results))
    /\ UNCHANGED <<restvars, report_results>>
    /\ KeepNewBut("report")

ReportNext == FromResults

ReportSpec == ReportInit /\ [][ReportNext]_vars

-----------------------------------------------------------------------------
(* f64 arithmetic as the processor does it (IEEE 754 binary64, round to     *)
(* nearest, ties to even), for src/src/report.rs: percentile. A natural     *)
(* number of any size is the list of its digits in base Limb, lowest first  *)
(* and without leading zeros. An f64 is [neg, m, e], the value              *)
(* (-1)^neg * m * 2^e with m of exactly MantissaBits bits, or m empty for   *)
(* zero. The exponent is not bounded: no value of the model is near the     *)
(* subnormal or the overflow range.                                         *)

MantissaBits == 53
Limb == 2^12

RECURSIVE bit_length(_)
bit_length(n) == IF n = 0 THEN 0 ELSE 1 + bit_length(n \div 2)

LimbBits == bit_length(Limb) - 1

RECURSIVE big_trim(_)
big_trim(a) ==
    IF a = <<>> THEN a
    ELSE IF a[Len(a)] = 0 THEN big_trim(SubSeq(a, 1, Len(a) - 1)) ELSE a

RECURSIVE big_of(_)
big_of(n) == IF n = 0 THEN <<>> ELSE <<n % Limb>> \o big_of(n \div Limb)

RECURSIVE big_to_int(_)
big_to_int(a) == IF a = <<>> THEN 0 ELSE Head(a) + Limb * big_to_int(Tail(a))

RECURSIVE big_add_carry(_, _, _)
big_add_carry(a, b, c) ==
    IF a = <<>> /\ b = <<>> THEN big_of(c)
    ELSE LET x == IF a = <<>> THEN 0 ELSE Head(a)
             y == IF b = <<>> THEN 0 ELSE Head(b)
             s == x + y + c
         IN  <<s % Limb>> \o big_add_carry(IF a = <<>> THEN a ELSE Tail(a),
                                           IF b = <<>> THEN b ELSE Tail(b), s \div Limb)

big_add(a, b) == big_add_carry(a, b, 0)

\* a - b for a >= b
RECURSIVE big_sub_borrow(_, _, _)
big_sub_borrow(a, b, c) ==
    IF a = <<>> THEN <<>>
    ELSE LET y == IF b = <<>> THEN 0 ELSE Head(b)
             d == Head(a) - y - c
         IN  <<(d + Limb) % Limb>>
                 \o big_sub_borrow(Tail(a), IF b = <<>> THEN b ELSE Tail(b),
                                   IF d < 0 THEN 1 ELSE 0)

big_sub(a, b) == big_trim(big_sub_borrow(a, b, 0))

\* a * k for a digit k (or Limb itself)
RECURSIVE big_scale_carry(_, _, _)
big_scale_carry(a, k, c) ==
    IF a = <<>> THEN big_of(c)
    ELSE LET p == Head(a) * k + c
         IN  <<p % Limb>> \o big_scale_carry(Tail(a), k, p \div Limb)

big_scale(a, k) == IF k = 0 THEN <<>> ELSE big_scale_carry(a, k, 0)

\* a * Limb^n
big_limbs_up(a, n) == IF a = <<>> THEN a ELSE [i \in 1..n |-> 0] \o a

RECURSIVE big_mul(_, _)
big_mul(a, b) ==
    IF b = <<>> THEN <<>>
    ELSE big_add(big_scale(a, Head(b)), big_limbs_up(big_mul(a, Tail(b)), 1))

\* quotient (leading zeros kept) and remainder of a by a digit k
RECURSIVE big_divmod(_, _)
big_divmod(a, k) ==
    IF a = <<>> THEN [q |-> <<>>, r |-> 0]
    ELSE LET rest == big_divmod(Tail(a), k)
             cur == rest.r * Limb + Head(a)
         IN  [q |-> <<cur \div k>> \o rest.q, r |-> cur % k]

big_div(a, k) == big_trim(big_divmod(a, k).q)

big_bits(a) == IF a = <<>> THEN 0 ELSE LimbBits * (Len(a) - 1) + bit_length(a[Len(a)])

RECURSIVE big_less(_, _)
big_less(a, b) ==
    IF Len(a) # Len(b) THEN Len(a) < Len(b)
    ELSE IF a = <<>> THEN FALSE
    ELSE LET n == Len(a)
         IN  IF a[n] # b[n] THEN a[n] < b[n]
             ELSE big_less(SubSeq(a, 1, n - 1), SubSeq(b, 1, n - 1))

big_odd(a) == a # <<>> /\ Head(a) % 2 = 1

\* a * 2^k
big_shl(a, k) == big_limbs_up(big_scale(a, 2^(k % LimbBits)), k \div LimbBits)

\* a / 2^k, rounded down
big_shr(a, k) ==
    LET n == k \div LimbBits
    IN  IF n >= Len(a) THEN <<>> ELSE big_div(SubSeq(a, n + 1, Len(a)), 2^(k % LimbBits))

\* a / 2^s for s > 0, rounded to the nearest, a tie to the even one
big_round_shr(a, s) ==
    LET q == big_shr(a, s)
        r == big_sub(a, big_shl(q, s))
        half == big_shl(<<1>>, s - 1)
        up == big_less(half, r) \/ (r = half /\ big_odd(q))
    IN  IF up THEN big_add(q, <<1>>) ELSE q

F64(neg, m, e) == [neg |-> neg, m |-> m, e |-> e]

\* The f64 nearest to (-1)^neg * a * 2^e.
f64_round(neg, a, e) ==
    LET bits == big_bits(a)
    IN  IF a = <<>> THEN F64(neg, <<>>, 0)
        ELSE IF bits <= MantissaBits
        THEN F64(neg, big_shl(a, MantissaBits - bits), e - (MantissaBits - bits))
        ELSE LET s == bits - MantissaBits
                 q == big_round_shr(a, s)
             IN  IF big_bits(q) > MantissaBits
                 THEN F64(neg, big_shr(q, 1), e + s + 1)
                 ELSE F64(neg, q, e + s)

\* `n as f64`
f64_of(n) == f64_round(n < 0, big_of(IF n < 0 THEN 0 - n ELSE n), 0)

f64_neg(x) == F64(~x.neg, x.m, x.e)

\* x * y
f64_mul(x, y) == f64_round(x.neg # y.neg, big_mul(x.m, y.m), x.e + y.e)

\* x + y
f64_add(x, y) ==
    IF x.m = <<>> THEN (IF y.m = <<>> THEN F64(x.neg /\ y.neg, <<>>, 0) ELSE y)
    ELSE IF y.m = <<>> THEN x
    ELSE LET e == IF x.e < y.e THEN x.e ELSE y.e
             a == big_shl(x.m, x.e - e)
             b == big_shl(y.m, y.e - e)
         IN  IF x.neg = y.neg THEN f64_round(x.neg, big_add(a, b), e)
             ELSE IF a = b THEN F64(FALSE, <<>>, 0)
             ELSE IF big_less(a, b) THEN f64_round(y.neg, big_sub(b, a), e)
             ELSE f64_round(x.neg, big_sub(a, b), e)

\* x - y
f64_sub(x, y) == f64_add(x, f64_neg(y))

\* x <= y
f64_le(x, y) == LET d == f64_sub(y, x) IN d.m = <<>> \/ ~d.neg

\* `x.floor() as usize` and `x.ceil() as usize` for x >= 0
f64_floor(x) ==
    IF x.e >= 0 THEN big_to_int(big_shl(x.m, x.e)) ELSE big_to_int(big_shr(x.m, 0 - x.e))

f64_ceil(x) ==
    IF x.e >= 0 \/ big_shl(big_shr(x.m, 0 - x.e), 0 - x.e) = x.m THEN f64_floor(x)
    ELSE f64_floor(x) + 1

\* x / y for a divisor that is a whole number of one digit, as every divisor
\* of the model is: the quotient is taken with MantissaBits + LimbBits more
\* bits than x has, and a last bit that says whether anything was left over.
f64_div(x, y) ==
    LET guard == MantissaBits + LimbBits
        dm == big_divmod(big_shl(x.m, guard), f64_floor(y))
        sticky == IF dm.r = 0 THEN <<>> ELSE <<1>>
    IN  f64_round(x.neg # y.neg, big_add(big_scale(big_trim(dm.q), 2), sticky),
                  x.e - guard - 1)

\* The f64 that the decimal n / 10^k is read as.
f64_decimal(n, k) == f64_div(f64_of(n), f64_of(10^k))

-----------------------------------------------------------------------------
(* src/src/report.rs: percentile and MonteCarloSummary::from_reports *)

\* `sorted[lo] * (1.0 - frac) + sorted[hi] * frac`
interpolate(lo_value, hi_value, frac) ==
    f64_add(f64_mul(lo_value, f64_sub(f64_of(1), frac)), f64_mul(hi_value, frac))

\* percentile(sorted, pct); the list is indexed from 1.
percentile(sorted, pct) ==
    IF Len(sorted) = 1 THEN sorted[1]
    ELSE LET rank == f64_mul(f64_div(pct, f64_of(100)), f64_of(Len(sorted) - 1))
             lo == f64_floor(rank)
             hi == f64_ceil(rank)
             frac == f64_sub(rank, f64_of(lo))
         IN  interpolate(sorted[lo + 1], sorted[hi + 1], frac)

\* pnls.sort_by(|a, b| a.total_cmp(b)), a stable sort
RECURSIVE sort_pnls_insert(_, _)
sort_pnls_insert(sorted, v) ==
    IF sorted = <<>> THEN <<v>>
    ELSE IF f64_le(Head(sorted), v) THEN <<Head(sorted)>> \o sort_pnls_insert(Tail(sorted), v)
    ELSE <<v>> \o sorted

RECURSIVE sort_pnls(_)
sort_pnls(pnls) ==
    IF pnls = <<>> THEN <<>>
    ELSE sort_pnls_insert(sort_pnls(SubSeq(pnls, 1, Len(pnls) - 1)), pnls[Len(pnls)])

\* MonteCarloSummary::from_reports, the fields made from the realistic PnL
\* percentiles.
from_reports(pnls) ==
    LET sorted == sort_pnls(pnls)
    IN  [runs |-> Len(pnls),
         pnls |-> sorted,
         realistic_pnl_median |-> percentile(sorted, f64_of(50)),
         realistic_pnl_p5 |-> percentile(sorted, f64_of(5)),
         realistic_pnl_p95 |-> percentile(sorted, f64_of(95))]

\* Realistic PnL totals of a report, in dollars.
SummaryPnls == {f64_decimal(3, 1), f64_decimal(51, 1), f64_decimal(0 - 49, 1),
                f64_of(10)}

\* The series of test_monte_carlo_percentiles: 10 * k for k = 1..10.
TenSeries == [k \in 1..10 |-> f64_of(10 * k)]

SummaryInit ==
    /\ pc = "summary"
    /\ RestInit
    /\ NewIdleBut("summary")
    /\ summary_pnls \in UNION {[1..n -> SummaryPnls] : n \in 0..MaxReports} \cup {TenSeries}
    /\ summary = None

\* assert!(!reports.is_empty(), "need at least one report")
FromReportsPanic ==
    /\ pc = "summary"
    /\ summary_pnls = <<>>
    /\ pc' = "summary_panic"
    /\ UNCHANGED <<restvars, summaryvars>>
    /\ KeepNewBut("summary")

FromReports ==
    /\ pc = "summary"
    /\ summary_pnls # <<>>
    /\ pc' = "summary_done"
    /\ summary' = Some(from_reports(summary_pnls))
    /\ UNCHANGED <<restvars, summary_pnls>>
    /\ KeepNewBut("summary")

SummaryNext == FromReportsPanic \/ FromReports

SummarySpec == SummaryInit /\ [][SummaryNext]_vars

-----------------------------------------------------------------------------
(* src/src/strategies/scripted.rs: RhaiStrategy::on_tick, parse_actions and *)
(* parse_one_action. A string is the list of its characters. A rhai Dynamic *)
(* is a record with its kind: a string, a float (in cents or shares), an    *)
(* integer, the unit value, a map from field names to Dynamics, or an array *)
(* of Dynamics.                                                             *)

DynString(s) == [kind |-> "string", s |-> s]
DynFloat(n) == [kind |-> "float", n |-> n]
DynInt(n) == [kind |-> "int", n |-> n]
DynUnit == [kind |-> "unit"]
DynMap(fields) == [kind |-> "map", fields |-> fields]
DynArray(items) == [kind |-> "array", items |-> items]

\* map.get(key)?.clone().into_string().ok()
get_string(map, key) ==
    IF key \in DOMAIN map /\ map[key].kind = "string" THEN Some(map[key].s) ELSE None

\* map.get(key)?.as_float().ok()
get_float(map, key) ==
    IF key \in DOMAIN map /\ map[key].kind = "float" THEN Some(map[key].n) ELSE None

\* match side_str.as_str() { "yes" | "Yes" | "YES" => .., "no" | "No" | "NO" => .., _ => return None }
side_of_str(side_str) ==
    IF side_str \in {<<"y", "e", "s">>, <<"Y", "e", "s">>, <<"Y", "E", "S">>} THEN Some("Yes")
    ELSE IF side_str \in {<<"n", "o">>, <<"N", "o">>, <<"N", "O">>} THEN Some("No")
    ELSE None

\* parse_one_action(map)
parse_one_action(map) ==
    LET action_type == get_string(map, "type")
        side_str == get_string(map, "side")
        side == side_of_str(Unwrap(side_str))
        price == get_float(map, "price")
        shares == get_float(map, "shares")
    IN  IF action_type = None \/ side_str = None THEN None
        ELSE IF side = None THEN None
        ELSE IF Unwrap(action_type) = <<"b", "i", "d">>
        THEN IF price = None \/ shares = None THEN None
             ELSE Some(PlaceBid(Unwrap(side), Unwrap(price), Unwrap(shares)))
        ELSE IF Unwrap(action_type) = <<"c", "a", "n", "c", "e", "l">>
        THEN Some(Cancel(Unwrap(side)))
        ELSE None

\* Mutant of parse_items: the first entry that gives no action ends the list.
RECURSIVE parse_items_until_bad(_)
parse_items_until_bad(arr) ==
    IF arr = <<>> THEN <<>>
    ELSE LET action == IF Head(arr).kind = "map" THEN parse_one_action(Head(arr).fields)
                       ELSE None
         IN  IF action = None THEN <<>> ELSE action \o parse_items_until_bad(Tail(arr))

\* The loop of parse_actions over the items of the array.
RECURSIVE parse_items(_)
parse_items(arr) ==
    IF arr = <<>> THEN <<>>
    ELSE LET action == IF Head(arr).kind = "map" THEN parse_one_action(Head(arr).fields)
                       ELSE None
         IN  action \o parse_items(Tail(arr))

\* parse_actions(result)
parse_actions(returned) ==
    IF returned.kind = "array" THEN parse_items(returned.items) ELSE <<>>

\* The result of engine.call_fn: Ok(value) or Err.
CallOk(value) == [ok |-> TRUE, value |-> value]
CallErr == [ok |-> FALSE]

\* RhaiStrategy::on_tick, from the result of the call of the script's on_tick
on_tick(called) == IF called.ok THEN parse_actions(called.value) ELSE <<>>

\* The maps that bid(side, price, shares) and cancel(side) build.
BidMap(side) ==
    DynMap([f \in {"type", "side", "price", "shares"} |->
               CASE f = "type" -> DynString(<<"b", "i", "d">>)
                 [] f = "side" -> DynString(side)
                 [] f = "price" -> DynFloat(49)
                 [] f = "shares" -> DynFloat(10)])

CancelMap(side) ==
    DynMap([f \in {"type", "side"} |->
               IF f = "type" THEN DynString(<<"c", "a", "n", "c", "e", "l">>)
               ELSE DynString(side)])

\* A map as m with the field f left out, and with the value v in it.
Without(m, f) == DynMap([g \in DOMAIN m.fields \ {f} |-> m.fields[g]])
WithField(m, f, v) == DynMap([g \in DOMAIN m.fields \cup {f} |-> IF g = f THEN v ELSE m.fields[g]])

SideStrings ==
    {<<"y", "e", "s">>, <<"Y", "e", "s">>, <<"Y", "E", "S">>, <<"y", "E", "s">>,
     <<"y", "e", "S">>, <<"n", "o">>, <<"N", "o">>, <<"N", "O">>, <<"n", "O">>,
     <<"u", "p">>}

\* The entries of the arrays the scripts of the model return.
ScriptEntries ==
    {CancelMap(s) : s \in SideStrings}
    \cup {BidMap(<<"y", "e", "s">>), BidMap(<<"N", "O">>), BidMap(<<"y", "e", "S">>),
          WithField(BidMap(<<"y", "e", "s">>), "type", DynString(<<"h", "o", "l", "d">>)),
          WithField(BidMap(<<"y", "e", "s">>), "type", DynInt(1)),
          WithField(BidMap(<<"y", "e", "s">>), "price", DynInt(49)),
          WithField(BidMap(<<"n", "o">>), "shares", DynInt(10)),
          Without(BidMap(<<"y", "e", "s">>), "price"),
          Without(BidMap(<<"n", "o">>), "shares"),
          Without(CancelMap(<<"n", "o">>), "side"),
          Without(CancelMap(<<"n", "o">>), "type"),
          DynInt(7), DynUnit}

\* What a call of the script's on_tick can end in.
ScriptCalls ==
    {CallOk(DynArray(a)) : a \in UNION {[1..n -> ScriptEntries] : n \in 0..MaxEntries}}
    \cup {CallOk(DynUnit), CallOk(DynInt(0)), CallOk(CancelMap(<<"n", "o">>)), CallErr}

ScriptInit ==
    /\ pc = "script"
    /\ RestInit
    /\ NewIdleBut("script")
    /\ script_tick = 0
    /\ script_returned = <<>>
    /\ script_actions = <<>>
    /\ script_failed = 0

\* One pass of the snapshot loop of run_window with a RhaiStrategy: on_tick
\* is called and the actions it returns are handed to the engine.
ScriptOnTick ==
    /\ pc = "script"
    /\ script_tick < MaxScriptTicks
    /\ \E called \in ScriptCalls :
          /\ script_returned' = called
          /\ script_actions' = on_tick(called)
          /\ script_failed' = IF called.ok /\ called.value.kind = "array" THEN script_failed
                               ELSE script_failed + 1
    /\ script_tick' = script_tick + 1
    /\ UNCHANGED <<pc, restvars>>
    /\ KeepNewBut("script")

ScriptNext == ScriptOnTick

ScriptSpec == ScriptInit /\ [][ScriptNext]_vars

-----------------------------------------------------------------------------
(* src/src/bin/pf.rs: cmd_run and cmd_run_native, with                      *)
(* src/src/strategies/mod.rs and RhaiStrategy::from_file. A script file is  *)
(* a record of what loading it meets: whether it can be read, whether it    *)
(* compiles, the functions it defines, whether its top level runs. The file *)
(* is the same every time it is read.                                       *)

\* create_strategy(name, ..): Option of the strategy built
create_strategy(name) ==
    CASE name = "spread_arb" -> Some("NaiveSpreadArb")
      [] name = "momentum" -> Some("MomentumSignal")
      [] name = "post_cancel" -> Some("PostBothCancelLoser")
      [] name = "depth" -> Some("DepthMomentum")
      [] name = "last_15s" -> Some("Last15Seconds")
      [] name = "gabagool" -> Some("Gabagool")
      [] OTHER -> None

\* list_strategies(), the names
list_strategies ==
    <<"spread_arb", "momentum", "post_cancel", "depth", "fade", "last_15s", "gabagool">>

\* is_known_strategy(name)
is_known_strategy(name) == \E i \in 1..Len(list_strategies) : list_strategies[i] = name

\* RhaiStrategy::from_file / from_source: Option of the error
from_file(script) ==
    IF ~script.readable THEN Some("failed to read script")
    ELSE IF ~script.compiles THEN Some("compile error")
    ELSE IF "on_tick" \notin script.functions THEN Some("script must define on_tick")
    ELSE IF "on_reset" \notin script.functions THEN Some("script must define on_reset")
    ELSE IF ~script.runs THEN Some("initialization error")
    ELSE None

\* Mutant of has_fade_signals: no signals are computed.
has_no_fade_signals(using_script, strategy_name) == FALSE

\* `fade_signals` is Some: !using_script && strategy_name == "fade"
has_fade_signals(using_script, strategy_name) == ~using_script /\ strategy_name = "fade"

\* The closure make_strategy of cmd_run and cmd_run_native; "panic" for a
\* failed expect.
make_strategy(args) ==
    IF IsSome(args.script)
    THEN IF from_file(Unwrap(args.script)) = None THEN "RhaiStrategy" ELSE "panic"
    ELSE IF has_fade_signals(IsSome(args.script), args.strategy_name) THEN "FadeMomentum"
    ELSE IF create_strategy(args.strategy_name) = None THEN "panic"
    ELSE Unwrap(create_strategy(args.strategy_name))

ScriptFile(readable, compiles, functions, runs) ==
    [readable |-> readable, compiles |-> compiles, functions |-> functions, runs |-> runs]

ScriptFiles ==
    {ScriptFile(TRUE, TRUE, {"on_tick", "on_reset"}, TRUE),
     ScriptFile(TRUE, TRUE, {"on_tick", "on_reset", "on_market_open"}, TRUE),
     ScriptFile(FALSE, TRUE, {"on_tick", "on_reset"}, TRUE),
     ScriptFile(TRUE, FALSE, {}, TRUE),
     ScriptFile(TRUE, TRUE, {"on_reset"}, TRUE),
     ScriptFile(TRUE, TRUE, {"on_tick"}, TRUE),
     ScriptFile(TRUE, TRUE, {"on_tick", "on_reset"}, FALSE)}

CmdNames == Range(list_strategies) \cup {"scalper", ""}

\* The arguments and the store: db_path given or not, whether the store
\* opens, how many markets it lists.
CmdArgs ==
    [strategy_name : CmdNames,
     script : {None} \cup {Some(s) : s \in ScriptFiles},
     native : BOOLEAN,
     db_path : BOOLEAN,
     store_opens : BOOLEAN,
     markets : 0..MaxCmdMarkets]

CmdRunInit ==
    /\ pc = "cmd_run"
    /\ RestInit
    /\ NewIdleBut("cmd")
    /\ cmd_args \in CmdArgs
    /\ cmd_events = <<>>
    /\ cmd_error = None
    /\ cmd_built = <<>>

\* Option of the error of the check at the top of cmd_run.
validation_error(args) ==
    IF IsSome(args.script)
    THEN IF from_file(Unwrap(args.script)) # None THEN Some("failed to load script") ELSE None
    ELSE IF ~is_known_strategy(args.strategy_name) THEN Some("unknown strategy")
    ELSE None

cmd_unchanged == UNCHANGED restvars /\ KeepNewBut("cmd")

CmdReject ==
    /\ pc = "cmd_run"
    /\ validation_error(cmd_args) # None
    /\ pc' = "cmd_error"
    /\ cmd_error' = validation_error(cmd_args)
    /\ UNCHANGED <<cmd_args, cmd_events, cmd_built>>
    /\ cmd_unchanged

CmdAccept ==
    /\ pc = "cmd_run"
    /\ validation_error(cmd_args) = None
    /\ pc' = "cmd_validated"
    /\ UNCHANGED <<cmd_args, cmd_events, cmd_error, cmd_built>>
    /\ cmd_unchanged

\* --native without --db: the error comes before the store is touched.
CmdNativeNoDb ==
    /\ pc = "cmd_validated"
    /\ cmd_args.native /\ ~cmd_args.db_path
    /\ pc' = "cmd_error"
    /\ cmd_error' = Some("--native mode requires --db")
    /\ UNCHANGED <<cmd_args, cmd_events, cmd_built>>
    /\ cmd_unchanged

CmdOpenStore ==
    /\ pc = "cmd_validated"
    /\ ~(cmd_args.native /\ ~cmd_args.db_path)
    /\ cmd_events' = Append(cmd_events, "open")
    /\ IF cmd_args.store_opens
       THEN pc' = "cmd_opened" /\ UNCHANGED cmd_error
       ELSE pc' = "cmd_error" /\ cmd_error' = Some("failed to open database")
    /\ UNCHANGED <<cmd_args, cmd_built>>
    /\ cmd_unchanged

CmdListMarkets ==
    /\ pc = "cmd_opened"
    /\ cmd_events' = Append(cmd_events, "list_markets")
    /\ IF cmd_args.markets > 0
       THEN pc' = "cmd_replay" /\ UNCHANGED cmd_error
       ELSE pc' = "cmd_error" /\ cmd_error' = Some("no markets found")
    /\ UNCHANGED <<cmd_args, cmd_built>>
    /\ cmd_unchanged

\* One market of run_all: its snapshots are loaded and strategy_fn, which is
\* make_strategy(&strategy_name), builds its strategy.
CmdReplayMarket ==
    /\ pc = "cmd_replay"
    /\ Len(cmd_built) < cmd_args.markets
    /\ cmd_events' = Append(cmd_events, "load_snapshots")
    /\ cmd_built' = Append(cmd_built, make_strategy(cmd_args))
    /\ pc' = IF make_strategy(cmd_args) = "panic" THEN "cmd_panic" ELSE pc
    /\ UNCHANGED <<cmd_args, cmd_error>>
    /\ cmd_unchanged

CmdReturn ==
    /\ pc = "cmd_replay"
    /\ Len(cmd_built) = cmd_args.markets
    /\ pc' = "cmd_done"
    /\ UNCHANGED cmdvars
    /\ cmd_unchanged

CmdRunNext ==
    \/ CmdReject
    \/ CmdAccept
    \/ CmdNativeNoDb
    \/ CmdOpenStore
    \/ CmdListMarkets
    \/ CmdReplayMarket
    \/ CmdReturn

CmdRunSpec == CmdRunInit /\ [][CmdRunNext]_vars

-----------------------------------------------------------------------------
(* src/src/data/polymarket.rs: ticks_to_snapshots *)

\* tick_to_side_state(tick)
tick_to_side_state(bt) ==
    [best_ask |-> bt.best_ask, best_ask_size |-> bt.best_ask_size, depth |-> bt.depth]

\* The inner loop: the ticks from index i on with offset_ms = offset are
\* consumed, the last tick of a side giving its state.
RECURSIVE consume_ticks(_, _, _, _, _)
consume_ticks(ticks, i, offset, yes_state, no_state) ==
    IF i <= Len(ticks) /\ ticks[i].offset_ms = offset
    THEN IF ticks[i].side = "Yes"
         THEN consume_ticks(ticks, i + 1, offset, Some(tick_to_side_state(ticks[i])), no_state)
         ELSE consume_ticks(ticks, i + 1, offset, yes_state, Some(tick_to_side_state(ticks[i])))
    ELSE [i |-> i, yes_state |-> yes_state, no_state |-> no_state]

\* Mutant of carry_forward: a side without a tick gets the default state.
no_carry_forward(state, prev) == IF IsSome(state) THEN Unwrap(state) ELSE SideDefault

\* state.unwrap_or_else(|| prev.clone())
carry_forward(state, prev) == IF IsSome(state) THEN Unwrap(state) ELSE prev

\* The outer loop, from index i on.
RECURSIVE snapshots_from(_, _, _, _, _)
snapshots_from(market_id, ticks, i, prev_yes, prev_no) ==
    IF i > Len(ticks) THEN <<>>
    ELSE LET offset == ticks[i].offset_ms
             run == consume_ticks(ticks, i, offset, None, None)
             yes == carry_forward(run.yes_state, prev_yes)
             no == carry_forward(run.no_state, prev_no)
         IN  <<[market_id |-> market_id, offset_ms |-> offset, yes |-> yes, no |-> no]>>
                 \o snapshots_from(market_id, ticks, run.i, yes, no)

\* ticks_to_snapshots(market_id, ticks); the ticks are indexed from 1.
ticks_to_snapshots(market_id, ticks) ==
    IF ticks = <<>> THEN <<>>
    ELSE snapshots_from(market_id, ticks, 1, SideDefault, SideDefault)

\* A BookTick with the book of side state s.
BookTick(market_id, side, offset_ms, s) ==
    [market_id |-> market_id, side |-> side, offset_ms |-> offset_ms,
     best_ask |-> s.best_ask, best_ask_size |-> s.best_ask_size, depth |-> s.depth]

BookTicks ==
    {BookTick("m1", sd, off, s) : sd \in Sides, off \in Offsets, s \in {SideCalm, SideSwept}}

TicksInit ==
    /\ pc = "ticks"
    /\ RestInit
    /\ NewIdleBut("ticks")
    /\ ticks_market_id \in {"m1", "m2"}
    /\ book_ticks \in UNION {[1..n -> BookTicks] : n \in 0..MaxBookTicks}
    /\ ticks_snapshots = None

TicksToSnapshots ==
    /\ pc = "ticks"
    /\ pc' = "ticks_done"
    /\ ticks_snapshots' = Some(ticks_to_snapshots(ticks_market_id, book_ticks))
    /\ UNCHANGED <<restvars, ticks_market_id, book_ticks>>
    /\ KeepNewBut("ticks")

TicksNext == TicksToSnapshots

TicksSpec == TicksInit /\ [][TicksNext]_vars

-----------------------------------------------------------------------------
(* src/src/strategies/post_cancel.rs: PostBothCancelLoser, driven as        *)
(* run_window drives a strategy: reset, on_market_open(snapshots[0]), then  *)
(* on_tick for every snapshot from the first. Oracle prices are whole       *)
(* dollars, as f64.                                                         *)

\* The signal_offset_ms create_strategy gives post_cancel (90_000).
pcl_signal_offset_ms == config_signal_offset_ms

\* PostBothCancelLoser::new
pcl_new == [open_oracle |-> None, placed |-> FALSE, signal_acted |-> FALSE]

\* reset
pcl_reset(st) == [open_oracle |-> None, placed |-> FALSE, signal_acted |-> FALSE]

\* on_market_open
pcl_on_market_open(st, s) == [st EXCEPT !.open_oracle = s.oracle_price]

\* (current - open) / open * 10_000.0
momentum_bps(open, current) ==
    f64_mul(f64_div(f64_sub(f64_of(current), f64_of(open)), f64_of(open)), f64_of(10000))

\* Mutant of signal_skipped: signal_acted is not looked at.
signal_skipped_by_offset(st, s) == s.offset_ms < pcl_signal_offset_ms

\* `self.signal_acted || snap.offset_ms < self.signal_offset_ms`
signal_skipped(st, s) == st.signal_acted \/ s.offset_ms < pcl_signal_offset_ms

\* The cancels at signal time for a drift of bps basis points.
pcl_cancels_at(bps, min_bps) ==
    IF ~f64_le(f64_of(min_bps), F64(FALSE, bps.m, bps.e))
    THEN <<Cancel("Yes"), Cancel("No")>>
    ELSE IF ~bps.neg /\ bps.m # <<>> THEN <<Cancel("No")>>
    ELSE <<Cancel("Yes")>>

\* Phase 2 of on_tick: the cancels at signal time.
pcl_cancels(st, s, min_bps) ==
    IF ~(IsSome(st.open_oracle) /\ IsSome(s.oracle_price) /\ Unwrap(st.open_oracle) # 0)
    THEN <<Cancel("Yes"), Cancel("No")>>
    ELSE pcl_cancels_at(momentum_bps(Unwrap(st.open_oracle), Unwrap(s.oracle_price)), min_bps)

\* on_tick(snap): the new state of the strategy and the actions returned.
pcl_on_tick(st, s, min_bps) ==
    IF ~st.placed
    THEN [st |-> [st EXCEPT !.placed = TRUE],
          actions |-> <<PlaceBid("Yes", 49, 10), PlaceBid("No", 49, 10)>>]
    ELSE IF signal_skipped(st, s) THEN [st |-> st, actions |-> <<>>]
    ELSE [st |-> [st EXCEPT !.signal_acted = TRUE], actions |-> pcl_cancels(st, s, min_bps)]

PclOracles == {None, Some(0), Some(1996), Some(1997), Some(2000), Some(2003), Some(2004)}

PclSnapshots == {[offset_ms |-> off, oracle_price |-> o] : off \in Offsets, o \in PclOracles}

PostCancelInit ==
    /\ pc = "pcl_between"
    /\ RestInit
    /\ NewIdleBut("pcl")
    /\ pcl_min_bps \in {0, 20}
    /\ pcl_strategy = pcl_new
    /\ pcl_windows = 0
    /\ pcl_history = <<>>

pcl_unchanged == UNCHANGED restvars /\ KeepNewBut("pcl")

\* run_window up to the first pass of the loop: reset, on_market_open and
\* on_tick on snapshots[0].
PclOpenWindow ==
    /\ pc = "pcl_between"
    /\ pcl_windows < MaxPclWindows
    /\ \E s \in PclSnapshots :
          \E ticked \in {pcl_on_tick(pcl_on_market_open(pcl_reset(pcl_strategy), s), s,
                                     pcl_min_bps)} :
             /\ pcl_strategy' = ticked.st
             /\ pcl_history' = <<[snap |-> s, actions |-> ticked.actions]>>
    /\ pcl_windows' = pcl_windows + 1
    /\ pc' = "pcl_window"
    /\ UNCHANGED pcl_min_bps
    /\ pcl_unchanged

\* A later pass of the loop, on a snapshot that is not earlier than the last.
PclOnTick ==
    /\ pc = "pcl_window"
    /\ Len(pcl_history) < MaxPclTicks
    /\ \E s \in PclSnapshots :
          /\ s.offset_ms >= pcl_history[Len(pcl_history)].snap.offset_ms
          /\ \E ticked \in {pcl_on_tick(pcl_strategy, s, pcl_min_bps)} :
                 /\ pcl_strategy' = ticked.st
                 /\ pcl_history' = Append(pcl_history, [snap |-> s, actions |-> ticked.actions])
    /\ UNCHANGED <<pc, pcl_min_bps, pcl_windows>>
    /\ pcl_unchanged

\* The window is over; the strategy is kept for the next one.
PclCloseWindow ==
    /\ pc = "pcl_window"
    /\ pc' = "pcl_between"
    /\ UNCHANGED pclvars
    /\ pcl_unchanged

PostCancelNext == PclOpenWindow \/ PclOnTick \/ PclCloseWindow

PostCancelSpec == PostCancelInit /\ [][PostCancelNext]_vars

-----------------------------------------------------------------------------
(* src/src/strategies: the built-in strategies, each as the record of its   *)
(* fields, driven as run_window drives a strategy: reset,                   *)
(* on_market_open(snapshots[0]), then on_tick for every snapshot from the   *)
(* first. A snapshot has market_id, offset_ms, oracle_price (whole dollars) *)
(* and for each side best_bid (cents) and the depth ladder.                 *)

\* The f64 a price of c cents is.
cents_f64(c) == f64_decimal(c, 2)

\* best_bid.unwrap_or(0.0), in cents
best_bid_or_zero(state) == IF IsSome(state.best_bid) THEN Unwrap(state.best_bid) ELSE 0

\* NaiveSpreadArb::new
spread_arb_new(bid_price, shares) ==
    [kind |-> "spread_arb", bid_price |-> bid_price, shares |-> shares, placed |-> FALSE]

\* Mutant of spread_arb_on_tick: `placed` is not looked at.
spread_arb_on_tick_again(st, s) ==
    [st |-> [st EXCEPT !.placed = TRUE],
     actions |-> <<PlaceBid("Yes", st.bid_price, st.shares),
                   PlaceBid("No", st.bid_price, st.shares)>>]

\* NaiveSpreadArb::on_tick
spread_arb_on_tick(st, s) ==
    IF st.placed THEN [st |-> st, actions |-> <<>>]
    ELSE [st |-> [st EXCEPT !.placed = TRUE],
          actions |-> <<PlaceBid("Yes", st.bid_price, st.shares),
                        PlaceBid("No", st.bid_price, st.shares)>>]

\* NaiveSpreadArb::reset
spread_arb_reset(st) == [st EXCEPT !.placed = FALSE]

\* MomentumSignal::new
momentum_new(bid_price, shares, min_bps, signal_at_ms) ==
    [kind |-> "momentum", bid_price |-> bid_price, shares |-> shares, min_bps |-> min_bps,
     signal_offset_ms |-> signal_at_ms, open_oracle |-> None, acted |-> FALSE]

\* MomentumSignal::on_market_open
momentum_on_market_open(st, s) == [st EXCEPT !.open_oracle = s.oracle_price]

\* `momentum_bps.abs() < self.min_bps`
weak_signal(bps, min_bps) == ~f64_le(f64_of(min_bps), F64(FALSE, bps.m, bps.e))

\* `if momentum_bps > 0.0 { Side::Yes } else { Side::No }`
momentum_side(bps) == IF ~bps.neg /\ bps.m # <<>> THEN "Yes" ELSE "No"

\* The end of MomentumSignal::on_tick, from momentum_bps on.
momentum_bid_at(st, bps) ==
    IF weak_signal(bps, st.min_bps) THEN <<>>
    ELSE <<PlaceBid(momentum_side(bps), st.bid_price, st.shares)>>

\* The actions of MomentumSignal::on_tick once the signal offset is reached.
momentum_actions(st, s) ==
    IF ~(IsSome(st.open_oracle) /\ IsSome(s.oracle_price)) THEN <<>>
    ELSE IF Unwrap(st.open_oracle) = 0 THEN <<>>
    ELSE momentum_bid_at(st, momentum_bps(Unwrap(st.open_oracle), Unwrap(s.oracle_price)))

\* Mutant of momentum_on_tick: `acted` is set only when a bid is placed.
momentum_on_tick_until_bid(st, s) ==
    IF st.acted \/ s.offset_ms < st.signal_offset_ms THEN [st |-> st, actions |-> <<>>]
    ELSE [st |-> [st EXCEPT !.acted = momentum_actions(st, s) # <<>>],
          actions |-> momentum_actions(st, s)]

\* MomentumSignal::on_tick
momentum_on_tick(st, s) ==
    IF st.acted \/ s.offset_ms < st.signal_offset_ms THEN [st |-> st, actions |-> <<>>]
    ELSE [st |-> [st EXCEPT !.acted = TRUE], actions |-> momentum_actions(st, s)]

\* Mutant of momentum_reset: `acted` is kept.
momentum_reset_keeps_acted(st) == [st EXCEPT !.open_oracle = None]

\* MomentumSignal::reset
momentum_reset(st) == [st EXCEPT !.open_oracle = None, !.acted = FALSE]

\* DepthMomentum::new
depth_new(bid_price, shares, min_bps, signal_at_ms) ==
    [kind |-> "depth", bid_price |-> bid_price, shares |-> shares, min_bps |-> min_bps,
     signal_offset_ms |-> signal_at_ms, open_oracle |-> None, acted |-> FALSE]

\* DepthMomentum::on_market_open
depth_on_market_open(st, s) == [st EXCEPT !.open_oracle = s.oracle_price]

\* The end of DepthMomentum::on_tick, from momentum_bps on.
depth_bid_at(st, bps, yes_depth, no_depth) ==
    IF weak_signal(bps, st.min_bps) THEN <<>>
    ELSE IF yes_depth = no_depth THEN <<>>
    ELSE IF momentum_side(bps) # (IF yes_depth > no_depth THEN "Yes" ELSE "No") THEN <<>>
    ELSE <<PlaceBid(momentum_side(bps), st.bid_price, st.shares)>>

\* The actions of DepthMomentum::on_tick once the signal offset is reached.
depth_actions(st, s) ==
    IF ~(IsSome(st.open_oracle) /\ IsSome(s.oracle_price) /\ Unwrap(st.open_oracle) # 0)
    THEN <<>>
    ELSE depth_bid_at(st, momentum_bps(Unwrap(st.open_oracle), Unwrap(s.oracle_price)),
                      bid_depth_at(s.yes, st.bid_price), bid_depth_at(s.no, st.bid_price))

\* DepthMomentum::on_tick
depth_on_tick(st, s) ==
    IF st.acted \/ s.offset_ms < st.signal_offset_ms THEN [st |-> st, actions |-> <<>>]
    ELSE [st |-> [st EXCEPT !.acted = TRUE], actions |-> depth_actions(st, s)]

\* DepthMomentum::reset
depth_reset(st) == [st EXCEPT !.open_oracle = None, !.acted = FALSE]

\* FadeMomentum::new; signals is the map from market ids to sides.
fade_new(bid_price, shares, signals) ==
    [kind |-> "fade", bid_price |-> bid_price, shares |-> shares, signals |-> signals,
     current_signal |-> None, acted |-> FALSE]

\* FadeMomentum::on_market_open
fade_on_market_open(st, s) ==
    [st EXCEPT !.current_signal = IF s.market_id \in DOMAIN st.signals
                                  THEN Some(st.signals[s.market_id]) ELSE None]

\* FadeMomentum::on_tick
fade_on_tick(st, s) ==
    IF st.acted THEN [st |-> st, actions |-> <<>>]
    ELSE [st |-> [st EXCEPT !.acted = TRUE],
          actions |-> IF IsSome(st.current_signal)
                      THEN <<PlaceBid(Unwrap(st.current_signal), st.bid_price, st.shares)>>
                      ELSE <<>>]

\* FadeMomentum::reset
fade_reset(st) == [st EXCEPT !.current_signal = None, !.acted = FALSE]

\* Last15Seconds::new; min_bid in cents.
last_15s_new(shares, min_bid, window_duration_ms) ==
    [kind |-> "last_15s", shares |-> shares, min_bid |-> min_bid,
     trigger_before_close_ms |-> 15000, window_duration_ms |-> window_duration_ms,
     acted |-> FALSE]

\* The choice of the side in Last15Seconds::on_tick, from
\* `yes_bid >= self.min_bid`, `yes_bid >= no_bid` and `no_bid >= self.min_bid`.
last_15s_pick(st, yes_bid, no_bid, yes_meets, yes_higher, no_meets) ==
    IF yes_meets /\ yes_higher
    THEN [st |-> [st EXCEPT !.acted = TRUE], actions |-> <<PlaceBid("Yes", yes_bid, st.shares)>>]
    ELSE IF no_meets
    THEN [st |-> [st EXCEPT !.acted = TRUE], actions |-> <<PlaceBid("No", no_bid, st.shares)>>]
    ELSE [st |-> st, actions |-> <<>>]

\* Last15Seconds::on_tick
last_15s_on_tick(st, s) ==
    IF st.acted THEN [st |-> st, actions |-> <<>>]
    ELSE IF s.offset_ms < st.window_duration_ms - st.trigger_before_close_ms
    THEN [st |-> st, actions |-> <<>>]
    ELSE last_15s_pick(st, best_bid_or_zero(s.yes), best_bid_or_zero(s.no),
                       f64_le(cents_f64(st.min_bid), cents_f64(best_bid_or_zero(s.yes))),
                       f64_le(cents_f64(best_bid_or_zero(s.no)), cents_f64(best_bid_or_zero(s.yes))),
                       f64_le(cents_f64(st.min_bid), cents_f64(best_bid_or_zero(s.no))))

\* Last15Seconds::reset
last_15s_reset(st) == [st EXCEPT !.acted = FALSE]

\* Gabagool::new; max_combined in cents.
gabagool_new(shares, max_combined) ==
    [kind |-> "gabagool", shares |-> shares, max_combined |-> max_combined,
     yes_placed |-> FALSE, no_placed |-> FALSE]

\* "First entry" of Gabagool::on_tick; yes_cheaper is `yes_bid <= no_bid`.
gabagool_first_entry(st, yes_bid, no_bid, yes_cheaper) ==
    IF ~(~st.yes_placed /\ ~st.no_placed) THEN [st |-> st, actions |-> <<>>]
    ELSE IF yes_cheaper /\ yes_bid > 0
    THEN [st |-> [st EXCEPT !.yes_placed = TRUE],
          actions |-> <<PlaceBid("Yes", yes_bid, st.shares)>>]
    ELSE IF no_bid > 0
    THEN [st |-> [st EXCEPT !.no_placed = TRUE],
          actions |-> <<PlaceBid("No", no_bid, st.shares)>>]
    ELSE [st |-> st, actions |-> <<>>]

\* "Second entry" of Gabagool::on_tick, on the state and the actions that
\* the first entry left.
gabagool_second_entry(first, yes_bid, no_bid) ==
    IF first.st.yes_placed /\ ~first.st.no_placed /\ no_bid > 0
    THEN [st |-> [first.st EXCEPT !.no_placed = TRUE],
          actions |-> Append(first.actions, PlaceBid("No", no_bid, first.st.shares))]
    ELSE IF first.st.no_placed /\ ~first.st.yes_placed /\ yes_bid > 0
    THEN [st |-> [first.st EXCEPT !.yes_placed = TRUE],
          actions |-> Append(first.actions, PlaceBid("Yes", yes_bid, first.st.shares))]
    ELSE first

\* `combined >= self.max_combined`
combined_too_high(st, yes_bid, no_bid) ==
    f64_le(cents_f64(st.max_combined), f64_add(cents_f64(yes_bid), cents_f64(no_bid)))

\* Gabagool::on_tick
gabagool_on_tick(st, s) ==
    IF st.yes_placed /\ st.no_placed THEN [st |-> st, actions |-> <<>>]
    ELSE IF combined_too_high(st, best_bid_or_zero(s.yes), best_bid_or_zero(s.no))
    THEN [st |-> st, actions |-> <<>>]
    ELSE gabagool_second_entry(
             gabagool_first_entry(st, best_bid_or_zero(s.yes), best_bid_or_zero(s.no),
                                  f64_le(cents_f64(best_bid_or_zero(s.yes)),
                                         cents_f64(best_bid_or_zero(s.no)))),
             best_bid_or_zero(s.yes), best_bid_or_zero(s.no))

\* Gabagool::reset
gabagool_reset(st) == [st EXCEPT !.yes_placed = FALSE, !.no_placed = FALSE]

\* PostBothCancelLoser as a record of this section.
post_cancel_new(min_bps) == [kind |-> "post_cancel", min_bps |-> min_bps, pcl |-> pcl_new]

post_cancel_on_tick(st, s) ==
    [st |-> [st EXCEPT !.pcl = pcl_on_tick(st.pcl, s, st.min_bps).st],
     actions |-> pcl_on_tick(st.pcl, s, st.min_bps).actions]

\* The signals the FadeMomentum of the model is built with.
StratSignals == [m \in {"m1", "m3"} |-> IF m = "m1" THEN "Yes" ELSE "No"]

\* The strategy that cmd_run builds for a name: create_strategy(name,
\* bid_price, shares, min_bps), and FadeMomentum::new for "fade".
strat_new(name, min_bps) ==
    CASE name = "spread_arb" -> spread_arb_new(49, 10)
      [] name = "momentum" -> momentum_new(49, 10, min_bps, 90000)
      [] name = "post_cancel" -> post_cancel_new(min_bps)
      [] name = "depth" -> depth_new(49, 10, min_bps, 90000)
      [] name = "fade" -> fade_new(49, 10, StratSignals)
      [] name = "last_15s" -> last_15s_new(10, 98, 900000)
      [] name = "gabagool" -> gabagool_new(10, 99)

\* Strategy::on_market_open, with the default of the trait that does nothing
strat_on_market_open(st, s) ==
    CASE st.kind = "momentum" -> momentum_on_market_open(st, s)
      [] st.kind = "post_cancel" -> [st EXCEPT !.pcl = pcl_on_market_open(st.pcl, s)]
      [] st.kind = "depth" -> depth_on_market_open(st, s)
      [] st.kind = "fade" -> fade_on_market_open(st, s)
      [] OTHER -> st

\* Strategy::on_tick: the new state and the actions returned
strat_on_tick(st, s) ==
    CASE st.kind = "spread_arb" -> spread_arb_on_tick(st, s)
      [] st.kind = "momentum" -> momentum_on_tick(st, s)
      [] st.kind = "post_cancel" -> post_cancel_on_tick(st, s)
      [] st.kind = "depth" -> depth_on_tick(st, s)
      [] st.kind = "fade" -> fade_on_tick(st, s)
      [] st.kind = "last_15s" -> last_15s_on_tick(st, s)
      [] st.kind = "gabagool" -> gabagool_on_tick(st, s)

\* Strategy::reset
strat_reset(st) ==
    CASE st.kind = "spread_arb" -> spread_arb_reset(st)
      [] st.kind = "momentum" -> momentum_reset(st)
      [] st.kind = "post_cancel" -> [st EXCEPT !.pcl = pcl_reset(st.pcl)]
      [] st.kind = "depth" -> depth_reset(st)
      [] st.kind = "fade" -> fade_reset(st)
      [] st.kind = "last_15s" -> last_15s_reset(st)
      [] st.kind = "gabagool" -> gabagool_reset(st)

\* The side of a snapshot with a best bid and the ladder of one level at
\* 0.49 (none for a size of 0).
StratSide(best_bid, size) ==
    [best_bid |-> best_bid,
     depth |-> IF size = 0 THEN <<>> ELSE <<[price |-> 49, cumulative_size |-> size]>>]

StratSnap(market_id, offset_ms, oracle_price, yes, no) ==
    [market_id |-> market_id, offset_ms |-> offset_ms, oracle_price |-> oracle_price,
     yes |-> yes, no |-> no]

StratOracles == {None, Some(0), Some(1996), Some(2000), Some(2004)}

\* Best bids of the Yes and the No side, for Gabagool and for Last15Seconds.
GabagoolBids ==
    {<<Some(48), Some(50)>>, <<Some(50), Some(48)>>, <<Some(49), Some(49)>>,
     <<Some(49), Some(50)>>, <<Some(50), Some(50)>>, <<Some(60), None>>, <<None, Some(60)>>,
     <<Some(0), Some(60)>>, <<Some(60), Some(0)>>, <<None, None>>}

Last15Bids ==
    {<<Some(98), Some(2)>>, <<Some(2), Some(98)>>, <<Some(99), Some(99)>>,
     <<Some(97), Some(3)>>, <<Some(98), Some(99)>>, <<None, None>>}

\* The snapshots a strategy is driven on: what it does not read is the same
\* in all of them.
StratSnapshots(name) ==
    CASE name \in {"momentum", "post_cancel"} ->
             {StratSnap("m1", off, o, StratSide(Some(49), 200), StratSide(Some(49), 200)) :
                  off \in Offsets, o \in StratOracles}
      [] name = "depth" ->
             {StratSnap("m1", off, o, StratSide(Some(49), d[1]), StratSide(Some(49), d[2])) :
                  off \in {45000, 90000}, o \in {None, Some(1996), Some(2004)},
                  d \in {<<100, 200>>, <<200, 100>>, <<200, 200>>}}
      [] name = "fade" ->
             {StratSnap(m, off, None, StratSide(Some(49), 200), StratSide(Some(49), 200)) :
                  m \in {"m1", "m2", "m3"}, off \in {0, 45000}}
      [] name = "last_15s" ->
             {StratSnap("m1", off, None, StratSide(b[1], 200), StratSide(b[2], 200)) :
                  off \in {870000, 885000}, b \in Last15Bids}
      [] name = "gabagool" ->
             {StratSnap("m1", 0, None, StratSide(b[1], 200), StratSide(b[2], 200)) :
                  b \in GabagoolBids}
      [] OTHER ->
             {StratSnap("m1", off, None, StratSide(Some(49), 200), StratSide(Some(49), 200)) :
                  off \in Offsets}

StrategyInit ==
    /\ pc = "strat_between"
    /\ RestInit
    /\ NewIdleBut("strat")
    /\ strat_kind \in {list_strategies[i] : i \in 1..Len(list_strategies)}
    /\ \E min_bps \in {0, 20} :
          /\ strat_state = strat_new(strat_kind, min_bps)
          /\ strat_fresh = strat_new(strat_kind, min_bps)
    /\ strat_windows = 0
    /\ strat_first = <<>>
    /\ strat_history = <<>>

strat_unchanged == UNCHANGED restvars /\ KeepNewBut("strat")

\* The strategy_fn of the run: one that hands out the instance it keeps, and
\* one that builds an instance; min_bps is the parameter both were built with.
strat_rebuilt == strat_new(strat_kind, IF "min_bps" \in DOMAIN strat_state
                                        THEN strat_state.min_bps ELSE 0)

\* Strategy::on_tick of the instance that is kept and of the one built anew.
strat_on_tick_both(kept, built, s) ==
    [inst \in {"kept", "built"} |-> strat_on_tick(IF inst = "kept" THEN kept ELSE built, s)]

\* The initialization of run_window: reset and on_market_open(snapshots[0]).
StratOpenWindow ==
    /\ pc = "strat_between"
    /\ strat_windows < MaxStratWindows
    /\ \E s \in StratSnapshots(strat_kind) :
          /\ strat_first' = s
          /\ strat_state' = strat_on_market_open(strat_reset(strat_state), s)
          /\ strat_fresh' = strat_on_market_open(strat_reset(strat_rebuilt), s)
    /\ strat_history' = <<>>
    /\ strat_windows' = strat_windows + 1
    /\ pc' = "strat_window"
    /\ UNCHANGED strat_kind
    /\ strat_unchanged

\* A pass of the loop of run_window: on_tick on snapshots[0], then on any
\* snapshot.
StratOnTick ==
    /\ pc = "strat_window"
    /\ Len(strat_history) < MaxStratTicks
    /\ \E s \in StratSnapshots(strat_kind) :
          /\ strat_history = <<>> => s = strat_first
          /\ \E ticked \in {strat_on_tick_both(strat_state, strat_fresh, s)} :
                /\ strat_state' = ticked["kept"].st
                /\ strat_fresh' = ticked["built"].st
                /\ strat_history' = Append(strat_history,
                                           [snap |-> s, actions |-> ticked["kept"].actions,
                                            fresh_actions |-> ticked["built"].actions])
    /\ UNCHANGED <<pc, strat_kind, strat_windows, strat_first>>
    /\ strat_unchanged

\* The window is over, after snapshots[0] at the least; the strategy is
\* kept for the next one.
StratCloseWindow ==
    /\ pc = "strat_window"
    /\ strat_history # <<>>
    /\ pc' = "strat_between"
    /\ UNCHANGED stratvars
    /\ strat_unchanged

StrategyNext == StratOpenWindow \/ StratOnTick \/ StratCloseWindow

StrategySpec == StrategyInit /\ [][StrategyNext]_vars

-----------------------------------------------------------------------------
(* Properties *)

Done == pc = "done" /\ IsSome(result)
Res == Unwrap(result)
Res2 == Unwrap(result2)
Idx == 1..Len(orders)
ReallyFilled(o) == o.filled /\ IsSome(o.filled_at_ms)

\* The signed amount of an order, written out from the accounting rule:
\* +shares * (1 - price) for the winning side, -shares * price for the other.
SignedAmount(o, outcome) ==
    IF (outcome = "YES" /\ o.side = "Yes") \/ (outcome = "NO" /\ o.side = "No")
    THEN o.shares * (100 - o.price)
    ELSE 0 - o.shares * o.price

\* The sum of the signed amounts of the orders whose index is in S.
RECURSIVE SumOver(_, _, _)
SumOver(S, os, outcome) ==
    IF S = {} THEN 0
    ELSE LET i == CHOOSE i \in S : TRUE
         IN  SignedAmount(os[i], outcome) + SumOver(S \ {i}, os, outcome)

\* C1 (as stated): with offsets that never decrease, an order created on a
\* tick whose offset_ms is T never ends the window with filled_at_ms = Some(T).
C1_NeverFilledAtPlacementOffset ==
    Done => \A i \in Idx : orders[i].filled_at_ms # Some(orders[i].placed_at_ms)

\* C1 (amended): with strictly increasing offsets, an order created on a tick
\* whose offset_ms is T never has filled_at_ms = Some(T): process_tick first
\* has it on the next tick, whose offset is larger.
C1_StrictOffsetsNeverFilledAtPlacement ==
    offsets_order = "strict" =>
        \A i \in Idx : /\ orders[i].filled_at_ms # Some(orders[i].placed_at_ms)
                       /\ IsSome(orders[i].filled_at_ms) =>
                              Unwrap(orders[i].filled_at_ms) > orders[i].placed_at_ms

\* An order placed on one tick and filled on the next, at a larger offset.
C1_Witness ==
    /\ Done
    /\ offsets_order = "strict"
    /\ \E i \in Idx : /\ ReallyFilled(orders[i])
                      /\ placed_tick[i] + 1 = seen_tick[i]
                      /\ Unwrap(orders[i].filled_at_ms) > orders[i].placed_at_ms

\* C2: an order that process_tick fills on a tick whose actions cancel its
\* side ends the window filled at that tick's offset and not cancelled, is
\* counted in the naive PnL and, when it passes the adverse-selection
\* filter, in the realistic PnL.
C2_FillWinsOverSameTickCancel ==
    Done =>
        \A r \in race :
            LET o == orders[r.idx]
                out == Res.outcome
                others == {j \in Idx \ {r.idx} : ~cancelled[j]}
                othersReal == {j \in others :
                                  /\ ReallyFilled(orders[j])
                                  /\ adverse_selection_filter(fill_model, orders[j],
                                         (out = "YES") <=> (orders[j].side = "Yes"))}
                passes == adverse_selection_filter(fill_model, o,
                                                   (out = "YES") <=> (o.side = "Yes"))
            IN  /\ o.filled
                /\ o.filled_at_ms = Some(r.offset_ms)
                /\ ~cancelled[r.idx]
                /\ Res.naive_pnl = SignedAmount(o, out) + SumOver(others, orders, out)
                /\ passes => Res.realistic_pnl =
                                 SignedAmount(o, out) + SumOver(othersReal, orders, out)

\* A window ends with an order that was filled on the tick that cancelled its side.
C2_Witness ==
    /\ Done
    /\ fill_model = "delise-3rule"
    /\ \E r \in race : /\ Res.realistic_pnl # 0
                       /\ Len(orders) = 2

\* No two orders are on the same side.
C3_OnePerSide ==
    \A i \in Idx : \A j \in Idx : i # j => orders[i].side # orders[j].side

\* Applying a PlaceBid for a side that already has an order changes nothing.
C3_RejectedPlaceBidChangesNothing ==
    (/\ pc = "apply"
     /\ actions[ai].type = "PlaceBid"
     /\ \E i \in Idx : orders[i].side = actions[ai].side)
    => UNCHANGED <<orders, cancelled, signal_offset_ms>>

\* C3: the orders hold at most one order per side at every point, and a
\* PlaceBid for a side that already has an order (open, filled or cancelled)
\* changes neither orders, cancelled nor signal_offset_ms; so Cancel followed
\* by PlaceBid on the same side never creates a second order.
C3_OneOrderPerSide == []C3_OnePerSide /\ [][C3_RejectedPlaceBidChangesNothing]_vars

\* A PlaceBid on a cancelled side has been applied and created nothing.
C3_Witness ==
    /\ pc = "apply"
    /\ ai = 2
    /\ applied = <<PlaceBid("Yes", 49, 10)>>
    /\ Len(orders) = 1
    /\ orders[1].side = "Yes"
    /\ cancelled[1]

\* C4: under the DeLise model, in every reachable state, filled_at_ms set
\* implies filled, and cancelled implies filled with filled_at_ms = None.
C4_FillEncoding ==
    fill_model = "delise-3rule" =>
        \A i \in Idx :
            /\ IsSome(orders[i].filled_at_ms) => orders[i].filled
            /\ cancelled[i] => (orders[i].filled /\ orders[i].filled_at_ms = None)

\* One order cancelled, another really filled.
C4_Witness ==
    /\ fill_model = "delise-3rule"
    /\ \E i \in Idx : \E j \in Idx :
          /\ cancelled[i]
          /\ ~cancelled[j] /\ ReallyFilled(orders[j])

\* C5: the naive PnL of a window does not depend on the samples the fill
\* model draws: two runs over the same inputs have the same naive PnL.
C5_NaivePnlIndependentOfSamples ==
    Done => Res.naive_pnl = Res2.naive_pnl

\* C6: two runs over the same market and snapshots with the same strategy and
\* the same DeLiseConfig have the same realistic PnL.
C6_SameConfigSameRealisticPnl ==
    Done => Res.realistic_pnl = Res2.realistic_pnl

InTick == pc \in {"strategy", "apply"}

RECURSIVE TypesOf(_)
TypesOf(as) == IF as = <<>> THEN <<>> ELSE <<Head(as).type>> \o TypesOf(Tail(as))

\* The calls of the current tick so far are process_tick, on_tick and the
\* actions in emission order; process_tick got the previous offset and the
\* orders of the earlier ticks; an order is first seen on the tick after its own.
C7_TickOrder ==
    /\ pc = "strategy" => calls = <<"process_tick">>
    /\ pc = "apply" =>
          /\ ai <= Len(actions)
          /\ applied = SubSeq(actions, 1, ai - 1)
          /\ calls = <<"process_tick", "on_tick">> \o TypesOf(applied)
    /\ InTick =>
          /\ pt_call.snap_offset_ms = snap.offset_ms
          /\ pt_call.prev_offset_ms = pt_call.expected_prev_ms
          /\ pt_call.n_orders = Cardinality({i \in Idx : placed_tick[i] < tick})
    /\ \A i \in Idx :
          /\ seen_tick[i] \in {0, placed_tick[i] + 1}
          /\ seen_tick[i] = 0 =>
                /\ placed_tick[i] = tick
                /\ orders[i].queue_consumed = 0
                /\ ~IsSome(orders[i].filled_at_ms)

\* The loop goes on to the next snapshot only after the last action.
C7_NextSnapshotAfterAllActions ==
    (pc = "apply" /\ pc' = "fill") => applied \o <<actions[ai]>> = actions

\* C7: on every tick process_tick runs once, then on_tick once, then the
\* actions in emission order, all before the next snapshot; process_tick gets
\* the previous snapshot's offset (its own on the first tick) and first has
\* an order on the tick after the one that created it.
C7_TickSequence == []C7_TickOrder /\ [][C7_NextSnapshotAfterAllActions]_vars

\* The second tick, with one of two different actions applied and an order of tick 1.
C7_Witness ==
    /\ pc = "apply"
    /\ tick = 2
    /\ ai = 2
    /\ applied # <<>>
    /\ actions[1] # actions[2]
    /\ pt_call.prev_offset_ms < pt_call.snap_offset_ms
    /\ \E i \in Idx : placed_tick[i] = 1 /\ seen_tick[i] = 2

\* C8: the naive PnL is the sum of the signed amounts of the orders that are
\* not cancelled, filled or not.
C8_NaivePnl ==
    Done => Res.naive_pnl = SumOver({i \in Idx : ~cancelled[i]}, orders, Res.outcome)

\* One order cancelled, the other open and never filled, and counted.
C8_Witness ==
    /\ Done
    /\ Len(orders) = 2
    /\ cancelled[1] /\ ~cancelled[2]
    /\ ~orders[2].filled
    /\ Res.naive_pnl = 510

\* C9: the realistic PnL is the sum of the signed amounts of the orders that
\* are not cancelled, are filled with filled_at_ms set and pass
\* adverse_selection_filter; it is 0 under a fill model that never fills.
C9_RealisticSet ==
    {i \in Idx : /\ ~cancelled[i]
                 /\ ReallyFilled(orders[i])
                 /\ adverse_selection_filter(fill_model, orders[i],
                        (Res.outcome = "YES") <=> (orders[i].side = "Yes"))}

C9_RealisticPnl ==
    Done => /\ Res.realistic_pnl = SumOver(C9_RealisticSet, orders, Res.outcome)
            /\ fill_model = "never-fill" => Res.realistic_pnl = 0

\* One order counted, the other filled but rejected by the filter.
C9_Witness ==
    /\ Done
    /\ fill_model = "delise-3rule"
    /\ Len(orders) = 2
    /\ ReallyFilled(orders[1]) /\ ReallyFilled(orders[2])
    /\ Cardinality(C9_RealisticSet) = 1

\* A step leaves every really filled order and its cancelled flag as they
\* are, and a process_tick step does not return its index.
C10_FrozenStep ==
    \A i \in Idx :
        ReallyFilled(orders[i]) =>
            /\ orders'[i] = orders[i]
            /\ cancelled'[i] = cancelled[i]
            /\ (pc = "fill" /\ pc' = "strategy") => i \notin Range(filled_indices')

\* C10: an order with filled = true and filled_at_ms set is frozen: no
\* process_tick, PlaceBid or Cancel changes any of its fields or its cancelled
\* flag, and process_tick never reports its index again.
C10_FilledOrderFrozen == [][C10_FrozenStep]_vars

\* A filled order that a later process_tick, on an adverse tick for it, and a
\* Cancel of its side have passed over.
C10_Witness ==
    /\ pc = "apply"
    /\ ai = 2
    /\ applied = <<Cancel("Yes")>>
    /\ \E i \in Idx : /\ orders[i].side = "Yes"
                      /\ ReallyFilled(orders[i])
                      /\ Unwrap(orders[i].filled_at_ms) < snap.offset_ms
                      /\ is_adverse_tick(snap, "Yes", orders[i].price)
                      /\ i \notin Range(filled_indices)

\* The open orders of a side: neither filled nor cancelled.
OpenOn(side) == {i \in Idx : orders[i].side = side /\ ~orders[i].filled /\ ~cancelled[i]}

\* The step that applies a Cancel: the open order of the side becomes filled
\* and cancelled with filled_at_ms = None and nothing else changes; with no
\* open order on the side nothing changes at all.
C11_CancelStep ==
    (pc = "apply" /\ actions[ai].type = "Cancel") =>
        LET open == OpenOn(actions[ai].side)
        IN  /\ signal_offset_ms' = signal_offset_ms
            /\ Len(orders') = Len(orders)
            /\ Len(cancelled') = Len(cancelled)
            /\ Cardinality(open) <= 1
            /\ open = {} => orders' = orders /\ cancelled' = cancelled
            /\ \A i \in Idx :
                  IF i \in open
                  THEN /\ orders'[i].filled
                       /\ cancelled'[i]
                       /\ orders'[i].filled_at_ms = None
                       /\ orders'[i] = [orders[i] EXCEPT !.filled = TRUE]
                  ELSE orders'[i] = orders[i] /\ cancelled'[i] = cancelled[i]

\* C11: Cancel{side} sets filled = true and cancelled = true on the open
\* (unfilled, non-cancelled) order of that side and leaves its filled_at_ms
\* None; when the side has no open order (never placed, really filled or
\* already cancelled) it changes nothing in orders, cancelled or
\* signal_offset_ms.
C11_CancelEffect == [][C11_CancelStep]_vars

\* A Cancel took the open Yes order while the No order, really filled, stayed.
C11_Witness ==
    /\ pc = "apply"
    /\ ai = 2
    /\ applied = <<Cancel("Yes")>>
    /\ actions[2] = Cancel("No")
    /\ \E i \in Idx : \E j \in Idx :
          /\ orders[i].side = "Yes" /\ cancelled[i] /\ orders[i].filled
          /\ orders[i].filled_at_ms = None
          /\ orders[j].side = "No" /\ ReallyFilled(orders[j]) /\ ~cancelled[j]

\* C12: run_window returns None whenever snapshots is empty or market.outcome
\* is absent, and then reset, on_market_open, on_tick and the fill model are
\* never called (no call, no tick, no order); in every other case it returns
\* a WindowResult.
C12_NoneOnEmptyOrUnresolved ==
    /\ (snapshots_empty \/ market_outcome = None) =>
          /\ pc \in {"start", "done"}
          /\ calls = <<>> /\ tick = 0 /\ orders = <<>> /\ filled_indices = <<>>
          /\ result = None
    /\ (pc = "done" /\ ~snapshots_empty /\ market_outcome # None) =>
          /\ IsSome(result)
          /\ Res.outcome = Unwrap(market_outcome)
          /\ tick >= 1

\* run_window has returned None for a resolved market with no snapshot.
C12_Witness ==
    /\ pc = "done"
    /\ snapshots_empty
    /\ IsSome(market_outcome)
    /\ result = None

\* The last call on the fill model was process_tick.
Ticked == pc = "model" /\ calls = <<"process_tick">>

\* The tick of the last call was adverse for order o: the best ask of its
\* side is there and at or below its price.
AdverseFor(o) ==
    LET st == IF o.side = "Yes" THEN snap.yes ELSE snap.no
    IN  st.best_ask # None /\ st.best_ask[1] <= o.price

\* The best_ask_size of the side of o in the last snapshot, 0 if absent.
SweepFor(o) ==
    LET st == IF o.side = "Yes" THEN snap.yes ELSE snap.no
    IN  IF st.best_ask_size = None THEN 0 ELSE st.best_ask_size[1]

\* C13: in DeLiseFillModel::process_tick, for an open order on an adverse
\* tick, queue_consumed grows by best_ask_size (0 if absent); the order is
\* filled iff the updated queue_consumed >= queue_ahead and u < adverse_fill_prob;
\* Rule 2 is not evaluated, so an order whose queue is not cleared does not
\* fill whatever u is; with queue_ahead = 0 the order is eligible at once.
C13_AdverseTickRule ==
    Ticked =>
        \A i \in Idx :
            LET b == orders_before[i]
                a == orders[i]
            IN  (~b.filled /\ AdverseFor(b)) =>
                    /\ a.queue_consumed = b.queue_consumed + SweepFor(b)
                    /\ a.filled <=> (/\ a.queue_consumed >= b.queue_ahead
                                      /\ us_drawn[i] < adverse_fill_prob)
                    /\ a.filled_at_ms = IF a.filled THEN Some(snap.offset_ms) ELSE None
                    /\ (i \in Range(filled_indices)) <=> a.filled
                    /\ a.queue_consumed < b.queue_ahead => ~a.filled
                    /\ (b.queue_ahead = 0 /\ us_drawn[i] < adverse_fill_prob) => a.filled
                    /\ a = [b EXCEPT !.queue_consumed = a.queue_consumed,
                                     !.filled = a.filled, !.filled_at_ms = a.filled_at_ms]

\* An adverse tick swept 100 of the 200 ahead of an order: with u = 0 and two
\* ticks' worth of time since prev_offset_ms the order is still open.
C13_Witness ==
    /\ Ticked
    /\ snap.offset_ms > prev_offset_ms
    /\ \E i \in Idx :
          /\ ~orders_before[i].filled /\ AdverseFor(orders_before[i])
          /\ us_drawn[i] = 0
          /\ orders[i].queue_ahead = 200
          /\ orders[i].queue_consumed = 100
          /\ ~orders[i].filled

\* C14: on a non-adverse tick with dt_ms = snap.offset_ms - prev_offset_ms <= 0
\* process_tick fills no order whatever u in [0, 1) is: the Rule 2 probability
\* is 0, also on a tick that repeats the previous offset.
C14_NoRule2FillWithoutTime ==
    /\ \A off \in Offsets : \A prev \in Offsets : \A post \in BOOLEAN :
          off - prev <= 0 => rf_fill_probability(off - prev, post) = 0
    /\ Ticked =>
          \A i \in Idx :
              (/\ ~orders_before[i].filled
               /\ ~AdverseFor(orders_before[i])
               /\ snap.offset_ms - prev_offset_ms <= 0)
              => /\ orders[i] = orders_before[i]
                 /\ i \notin Range(filled_indices)

\* Two open orders on a non-adverse tick, u = 0 for both: one call repeats
\* the previous offset, the other goes back in time.
C14_Witness ==
    /\ Ticked
    /\ snap.offset_ms < prev_offset_ms
    /\ snap.offset_ms >= config_signal_offset_ms \div 2
    /\ Len(orders) = 2
    /\ \A i \in Idx : /\ ~orders_before[i].filled
                      /\ ~AdverseFor(orders_before[i])
                      /\ us_drawn[i] = 0
                      /\ ~orders[i].filled

\* What is left of the queue ahead of an order.
Remaining(o) == IF o.queue_ahead > o.queue_consumed THEN o.queue_ahead - o.queue_consumed ELSE 0

\* C15: adverse_selection_filter(order, is_winner) is false when filled_at_ms
\* is None; true when filled_at_ms < signal_offset_ms; true for a loser
\* filled at or after signal_offset_ms; and for a winner filled at or after
\* signal_offset_ms true iff max(0, queue_ahead - queue_consumed) <
\* winner_queue_threshold.
C15_AdverseSelectionFilter ==
    \A i \in Idx : \A is_winner \in BOOLEAN :
        LET o == orders[i]
            verdict == adverse_selection_filter(fill_model, o, is_winner)
        IN  /\ o.filled_at_ms = None => ~verdict
            /\ (o.filled_at_ms # None /\ o.filled_at_ms[1] < config_signal_offset_ms) => verdict
            /\ (o.filled_at_ms # None /\ o.filled_at_ms[1] >= config_signal_offset_ms) =>
                  IF is_winner THEN verdict <=> (Remaining(o) < winner_queue_threshold)
                  ELSE verdict

\* Two orders filled after the signal: one with exactly the threshold left
\* ahead of it, one with less.
C15_Witness ==
    /\ pc = "model"
    /\ Len(orders) = 2
    /\ \A i \in Idx : /\ orders[i].filled_at_ms # None
                      /\ orders[i].filled_at_ms[1] >= config_signal_offset_ms
    /\ Remaining(orders[1]) = winner_queue_threshold
    /\ Remaining(orders[2]) > 0 /\ Remaining(orders[2]) < winner_queue_threshold
    /\ ~adverse_selection_filter(fill_model, orders[1], TRUE)
    /\ adverse_selection_filter(fill_model, orders[2], TRUE)

\* The ids of the markets of a list, in the order of the list.
IdsOf(ms) == [i \in 1..Len(ms) |-> ms[i].id]

Loaded(m) == m.load # "err"
Replayable(m) == m.load = "snapshots" /\ m.outcome # None

\* C16: run_all returns exactly one WindowResult for each market whose
\* snapshot load succeeds with a non-empty sequence and whose outcome is
\* present, in the order of the markets list; a load error skips only that
\* market, every later market is still processed, and each window runs with
\* a strategy of its own, freshly built by the factory.
C16_RunAllResults ==
    pc = "returned" =>
        /\ [i \in 1..Len(run_results) |-> run_results[i].market_id]
              = IdsOf(SelectSeq(run_markets, Replayable))
        /\ [i \in 1..Len(run_log) |-> run_log[i].market_id] = IdsOf(SelectSeq(run_markets, Loaded))
        /\ \A i \in 1..Len(run_log) : \A j \in 1..Len(run_log) :
              i # j => run_log[i].strategy # run_log[j].strategy
        /\ run_built = Len(run_log)
        /\ \A i \in 1..Len(run_results) : \E j \in 1..Len(run_log) : run_results[i] = run_log[j]

\* The first market failed to load, the second had no snapshot, the third
\* gave the only result.
C16_Witness ==
    /\ pc = "returned"
    /\ Len(run_markets) = 3
    /\ run_markets[1].load = "err"
    /\ run_markets[2].load = "empty"
    /\ Len(run_results) = 1
    /\ run_results[1].market_id = 3
    /\ run_built = 2

FadeDone == pc = "fade_done"
Signals == Unwrap(fade_signals)

\* Market a comes before market b in the group both are in: earlier open_ts,
\* or the same open_ts and earlier in the list.
Before(a, b) ==
    \/ fade_markets[a].open_ts < fade_markets[b].open_ts
    \/ fade_markets[a].open_ts = fade_markets[b].open_ts /\ a < b

\* The resolved markets of the group of market b (positions in the list).
GroupOf(b) ==
    {a \in 1..Len(fade_markets) :
        /\ fade_markets[a].outcome # None
        /\ fade_markets[a].category = fade_markets[b].category
        /\ fade_markets[a].duration_secs = fade_markets[b].duration_secs}

\* The rank of market a in its sorted group.
Rank(a) == Cardinality({c \in GroupOf(a) : Before(c, a)}) + 1

\* The market of rank r in the group of market b.
AtRank(b, r) == CHOOSE a \in GroupOf(b) : Rank(a) = r

\* The markets of ranks r - n + 1 .. r of the group of b form a run: one
\* outcome, and no two neighbours more than duration_secs + 60 apart.
IsRun(b, r, n) ==
    /\ n >= 1 /\ n <= r
    /\ \A q \in (r - n + 1)..r :
          fade_markets[AtRank(b, q)].outcome = fade_markets[AtRank(b, r)].outcome
    /\ \A q \in (r - n + 1)..(r - 1) :
          fade_markets[AtRank(b, q + 1)].open_ts - fade_markets[AtRank(b, q)].open_ts
              <= fade_markets[b].duration_secs + 60

\* The length of the longest run that ends at rank r of the group of b.
RunLength(b, r) == CHOOSE n \in 1..r : IsRun(b, r, n) /\ \A k \in 1..r : IsRun(b, r, k) => k <= n

\* Market b is signalled: it is resolved, not the first of its group, and
\* the run that ends right before it has a length within the streak range.
Signalled(b) ==
    /\ fade_markets[b].outcome # None
    /\ Rank(b) > 1
    /\ RunLength(b, Rank(b) - 1) >= min_streak
    /\ RunLength(b, Rank(b) - 1) <= max_streak

\* C17: compute_fade_signals maps a market M to a side iff, within M's
\* (category, duration_secs) group of resolved markets sorted ascending by
\* open_ts, the market right before M ends a run of k consecutive
\* same-outcome markets with min_streak <= k <= max_streak, the run being cut
\* where two consecutive open_ts differ by more than duration_secs + 60; the
\* side is No after a run of YES and Yes after a run of NO; groups are
\* tracked independently.
C17_FadeSignals ==
    FadeDone =>
        /\ DOMAIN Signals = {fade_markets[b].id : b \in {c \in 1..Len(fade_markets) : Signalled(c)}}
        /\ \A b \in 1..Len(fade_markets) :
              Signalled(b) =>
                  Signals[fade_markets[b].id] =
                      (IF fade_markets[AtRank(b, Rank(b) - 1)].outcome = Some("YES")
                       THEN "No" ELSE "Yes")

\* Two 5-minute btc markets, listed latest first, ended YES 300 s apart and
\* signal No on the third, with min_streak = max_streak = 2.
C17_Witness ==
    /\ FadeDone
    /\ min_streak = 2 /\ max_streak = 2
    /\ Len(fade_markets) = 3
    /\ \A b \in 1..3 : fade_markets[b].category = "btc" /\ fade_markets[b].duration_secs = 300
    /\ fade_markets[1].open_ts = 300 /\ fade_markets[1].outcome = Some("YES")
    /\ fade_markets[2].open_ts = 0 /\ fade_markets[2].outcome = Some("YES")
    /\ fade_markets[3].open_ts = 661 /\ fade_markets[3].outcome = Some("NO")
    /\ DOMAIN Signals = {3}
    /\ Signals[3] = "No"

\* C18: compute_fade_signals is a function of the set of input markets: any
\* permutation of the list, also of markets that share category,
\* duration_secs and open_ts, yields the same map.
C18_PermutationInvariant ==
    FadeDone => fade_signals_permuted = fade_signals

DepthDone == pc = "depth_done"

\* The rungs at the requested price, and the rungs at or above it.
RungsAt == {i \in 1..Len(ladder) : ladder[i].price = depth_price}
RungsAbove == {i \in 1..Len(ladder) : ladder[i].price >= depth_price}

\* C19: bid_depth_at(price) returns the cumulative_size of the rung whose
\* price equals the requested price when there is one (the first of them);
\* otherwise the cumulative_size of the lowest-priced rung with price >=
\* requested (the first of them); and 0 when the ladder is empty or every
\* rung is below the price. It does not return the size of a higher rung
\* because that rung is at or above the price.
C19_BidDepthAt ==
    DepthDone =>
        LET r == Unwrap(depth_returned)
        IN  /\ RungsAt # {} =>
                  \E i \in RungsAt : /\ r = ladder[i].cumulative_size
                                     /\ \A j \in RungsAt : i <= j
            /\ (RungsAt = {} /\ RungsAbove # {}) =>
                  \E i \in RungsAbove :
                      /\ r = ladder[i].cumulative_size
                      /\ \A j \in RungsAbove :
                            \/ ladder[i].price < ladder[j].price
                            \/ ladder[i].price = ladder[j].price /\ i <= j
            /\ RungsAbove = {} => r = 0

\* No rung at 0.48; the rung at 0.50 comes first and holds 200, the rung at
\* 0.49 holds 100: 100 is returned.
C19_Witness ==
    /\ DepthDone
    /\ depth_price = 48
    /\ ladder = <<[price |-> 50, cumulative_size |-> 200],
                  [price |-> 49, cumulative_size |-> 100]>>
    /\ depth_returned = Some(100)

\* The non-cancelled orders, and those of them with filled_at_ms set.
LiveOrders == {i \in Idx : ~cancelled[i]}
FilledOrders == {i \in LiveOrders : orders[i].filled_at_ms # None}

\* The smallest index of a non-empty set of order indices.
Earliest(S) == CHOOSE i \in S : \A j \in S : i <= j

\* C20: in every WindowResult, filled is true iff some non-cancelled order
\* has filled_at_ms set, and then queue_ahead_at_place and fill_time_ms are
\* the queue_ahead and filled_at_ms of the first such order in placement
\* order; otherwise fill_time_ms is None and queue_ahead_at_place is the
\* queue_ahead of the first non-cancelled order, or 0 when there is none.
\* Hence filled is true iff fill_time_ms is set.
C20_FillMetadata ==
    Done =>
        /\ Res.filled <=> FilledOrders # {}
        /\ FilledOrders # {} =>
              /\ Res.queue_ahead_at_place = orders[Earliest(FilledOrders)].queue_ahead
              /\ Res.fill_time_ms = orders[Earliest(FilledOrders)].filled_at_ms
        /\ FilledOrders = {} =>
              /\ Res.fill_time_ms = None
              /\ Res.queue_ahead_at_place =
                    IF LiveOrders # {} THEN orders[Earliest(LiveOrders)].queue_ahead ELSE 0
        /\ Res.filled <=> Res.fill_time_ms # None

\* The first order, 200 behind, never filled; the second, at the front of
\* its queue, filled: the result reports the second.
C20_Witness ==
    /\ Done
    /\ Len(orders) = 2
    /\ ~cancelled[1] /\ ~orders[1].filled /\ orders[1].queue_ahead = 200
    /\ ~cancelled[2] /\ ReallyFilled(orders[2]) /\ orders[2].queue_ahead = 0
    /\ Res.filled
    /\ Res.queue_ahead_at_place = 0
    /\ Res.fill_time_ms = orders[2].filled_at_ms

\* signal_offset_ms is None exactly while no PlaceBid has been accepted, and
\* the result carries it.
C21_SignalState ==
    /\ signal_offset_ms = None <=> orders = <<>>
    /\ Done => Res.signal_offset_ms = signal_offset_ms

\* The step that accepts the first PlaceBid sets signal_offset_ms to the
\* offset of its tick; no other step changes it.
C21_SignalStep ==
    IF orders = <<>> /\ orders' # <<>>
    THEN signal_offset_ms' = Some(snap.offset_ms) /\ pc = "apply"
    ELSE signal_offset_ms' = signal_offset_ms

\* C21: WindowResult.signal_offset_ms is the offset_ms of the tick on which
\* the first PlaceBid of the window was accepted and never changes
\* afterwards, also when that order is cancelled or a later order is
\* placed; it is None iff no PlaceBid was ever accepted.
C21_SignalOffset == []C21_SignalState /\ [][C21_SignalStep]_vars

\* The first order was cancelled and a second one placed on a later tick, at
\* a larger offset: the result has the offset of the first.
C21_Witness ==
    /\ Done
    /\ Len(orders) = 2
    /\ cancelled[1]
    /\ orders[2].placed_at_ms > orders[1].placed_at_ms
    /\ Res.signal_offset_ms = Some(orders[1].placed_at_ms)

ReportDone == pc = "report_done"
Rep == Unwrap(report)

\* The traded windows of the results, those of them that filled, and those
\* with a fill time.
TradedWindows == {i \in 1..Len(report_results) : report_results[i].bid_side # None}
FilledWindows == {i \in TradedWindows : report_results[i].filled}
TimedWindows == {i \in TradedWindows : report_results[i].fill_time_ms # None}

\* C22: Report::from_results never divides by zero: fill_rate,
\* naive_win_rate, avg_naive_pnl, avg_realistic_pnl and avg_queue_ahead are 0
\* when trades_taken = 0, realistic_win_rate is 0 when fills = 0,
\* avg_fill_time_ms is 0 when no traded window has a fill time, and on an
\* empty result list every count and total is 0.
C22_NoDivisionByZero ==
    ReportDone =>
        /\ \A f \in {"fill_rate", "naive_win_rate", "realistic_win_rate", "avg_naive_pnl",
                      "avg_realistic_pnl", "avg_queue_ahead", "avg_fill_time_ms"} :
              Rep[f].finite
        /\ Rep.trades_taken = Cardinality(TradedWindows)
        /\ Rep.fills = Cardinality(FilledWindows)
        /\ TradedWindows = {} =>
              \A f \in {"fill_rate", "naive_win_rate", "avg_naive_pnl", "avg_realistic_pnl",
                        "avg_queue_ahead"} : Rep[f] = Finite(0)
        /\ FilledWindows = {} => Rep.realistic_win_rate = Finite(0)
        /\ TimedWindows = {} => Rep.avg_fill_time_ms = Finite(0)
        /\ report_results = <<>> =>
              \A f \in {"total_windows", "trades_taken", "fills", "correct", "skipped",
                        "naive_total_pnl", "realistic_total_pnl", "phantom_fill_gap"} :
                  Rep[f] = 0

\* Two windows with no order placed: nothing traded, every rate is 0.
C22_Witness ==
    /\ ReportDone
    /\ Len(report_results) = 2
    /\ TradedWindows = {}
    /\ Rep.skipped = 2
    /\ Rep.fill_rate = Finite(0)
    /\ Rep.avg_fill_time_ms = Finite(0)

SummaryDone == pc = "summary_done"
Summ == Unwrap(summary)

\* C23: MonteCarloSummary percentiles are interpolated on the ascending
\* realistic-PnL series (the single value when there is one report), so
\* min <= p5 <= median <= p95 <= max, and for the series 10 * k, k = 1..10,
\* the median is 55, p5 is 14.5 and p95 is 95.5.
C23_Percentiles ==
    SummaryDone =>
        LET n == Len(summary_pnls)
        IN  /\ Summ.runs = n
            /\ \A i \in 1..(n - 1) : f64_le(Summ.pnls[i], Summ.pnls[i + 1])
            /\ n = 1 => /\ Summ.realistic_pnl_median = summary_pnls[1]
                        /\ Summ.realistic_pnl_p5 = summary_pnls[1]
                        /\ Summ.realistic_pnl_p95 = summary_pnls[1]
            /\ f64_le(Summ.pnls[1], Summ.realistic_pnl_p5)
            /\ f64_le(Summ.realistic_pnl_p5, Summ.realistic_pnl_median)
            /\ f64_le(Summ.realistic_pnl_median, Summ.realistic_pnl_p95)
            /\ f64_le(Summ.realistic_pnl_p95, Summ.pnls[n])
            /\ summary_pnls = TenSeries =>
                  /\ Summ.realistic_pnl_median = f64_of(55)
                  /\ Summ.realistic_pnl_p5 = f64_decimal(145, 1)
                  /\ Summ.realistic_pnl_p95 = f64_decimal(955, 1)

\* The entries of the array returned on the last tick (none when the call
\* failed or gave something else).
Entries ==
    IF script_tick > 0 /\ script_returned.ok /\ script_returned.value.kind = "array"
    THEN script_returned.value.items ELSE <<>>

IsString(map, f) == f \in DOMAIN map.fields /\ map.fields[f].kind = "string"
IsFloat(map, f) == f \in DOMAIN map.fields /\ map.fields[f].kind = "float"

\* A string in lower case.
LowerCase(s) ==
    [i \in DOMAIN s |->
        CASE s[i] = "Y" -> "y" [] s[i] = "E" -> "e" [] s[i] = "S" -> "s"
          [] s[i] = "N" -> "n" [] s[i] = "O" -> "o" [] OTHER -> s[i]]

\* The entries that are cancel maps, with a side string.
CancelEntries ==
    {i \in 1..Len(Entries) :
        /\ Entries[i].kind = "map"
        /\ IsString(Entries[i], "type")
        /\ Entries[i].fields["type"].s = <<"c", "a", "n", "c", "e", "l">>
        /\ IsString(Entries[i], "side")}

\* C24: the side string of an action is accepted case-insensitively: every
\* capitalisation of "yes" is parsed as Side::Yes and every capitalisation
\* of "no" as Side::No.
C24_SideCaseInsensitive ==
    \A i \in CancelEntries :
        LET lower == LowerCase(Entries[i].fields["side"].s)
        IN  /\ lower = <<"y", "e", "s">> =>
                  parse_one_action(Entries[i].fields) = Some(Cancel("Yes"))
            /\ lower = <<"n", "o">> =>
                  parse_one_action(Entries[i].fields) = Some(Cancel("No"))

\* The side a side string stands for, by the spellings the code accepts.
KnownSide(s) ==
    CASE s \in {<<"y", "e", "s">>, <<"Y", "e", "s">>, <<"Y", "E", "S">>} -> "Yes"
      [] s \in {<<"n", "o">>, <<"N", "o">>, <<"N", "O">>} -> "No"
      [] OTHER -> "none"

\* The well-formed entries: maps with a type of bid or cancel, a known side
\* and, for a bid, a float price and float shares.
WellFormed ==
    {i \in 1..Len(Entries) :
        /\ Entries[i].kind = "map"
        /\ IsString(Entries[i], "type")
        /\ IsString(Entries[i], "side")
        /\ KnownSide(Entries[i].fields["side"].s) # "none"
        /\ \/ Entries[i].fields["type"].s = <<"c", "a", "n", "c", "e", "l">>
           \/ /\ Entries[i].fields["type"].s = <<"b", "i", "d">>
              /\ IsFloat(Entries[i], "price")
              /\ IsFloat(Entries[i], "shares")}

\* The action a well-formed entry stands for.
ActionOf(entry) ==
    IF entry.fields["type"].s = <<"b", "i", "d">>
    THEN PlaceBid(KnownSide(entry.fields["side"].s), entry.fields["price"].n,
                  entry.fields["shares"].n)
    ELSE Cancel(KnownSide(entry.fields["side"].s))

C25_TickState ==
    /\ Len(script_actions) = Cardinality(WellFormed)
    /\ \A i \in WellFormed :
          script_actions[Cardinality({j \in WellFormed : j <= i})] = ActionOf(Entries[i])

\* C25: on_tick returns the actions of the well-formed entries of the
\* returned array in their order and drops every other entry; a value that
\* is no array, or an error in the script, gives no action for that tick,
\* and the following ticks of the window are replayed all the same.
C25_OnTickActions ==
    /\ []C25_TickState
    /\ [][script_tick' = script_tick + 1]_vars
    /\ [](pc = "script" /\ script_tick < MaxScriptTicks => ENABLED ScriptOnTick)

\* After a tick on which the script failed, a tick on which an array of a
\* malformed and a well-formed entry gives the one action.
C25_Witness ==
    /\ script_tick = 2
    /\ script_failed = 1
    /\ Len(Entries) = 2
    /\ Entries[1].kind # "map"
    /\ script_actions = <<Cancel("No")>>

\* The script of the run loads: it is readable, compiles, defines on_tick
\* and on_reset, and its top level runs.
ScriptLoads ==
    LET s == Unwrap(cmd_args.script)
    IN  s.readable /\ s.compiles /\ {"on_tick", "on_reset"} \subseteq s.functions /\ s.runs

\* The names `pf strategies` lists.
ListedNames ==
    {"spread_arb", "momentum", "post_cancel", "depth", "fade", "last_15s", "gabagool"}

\* The run is refused by the check at the top of cmd_run.
Refused ==
    \/ cmd_args.script = None /\ cmd_args.strategy_name \notin ListedNames
    \/ cmd_args.script # None /\ ~ScriptLoads

\* C26: an unknown strategy name, and a script that fails to load, are
\* rejected before any data store is opened and any market or snapshot is
\* loaded; a name that is accepted is instantiated by the strategy factory
\* every time.
C26_ValidatedBeforeData ==
    pc \in {"cmd_run", "cmd_validated", "cmd_opened", "cmd_replay", "cmd_done", "cmd_error",
            "cmd_panic"} =>
        /\ Refused /\ pc # "cmd_run" =>
              /\ pc = "cmd_error"
              /\ cmd_error \in {Some("unknown strategy"), Some("failed to load script")}
              /\ cmd_events = <<>>
        /\ cmd_events # <<>> => ~Refused
        /\ pc # "cmd_panic"
        /\ \A i \in 1..Len(cmd_built) : cmd_built[i] # "panic"

\* The name fade is accepted and a FadeMomentum is built for each of two
\* markets.
C26_Witness ==
    /\ pc = "cmd_done"
    /\ cmd_args.script = None
    /\ cmd_args.strategy_name = "fade"
    /\ cmd_built = <<"FadeMomentum", "FadeMomentum">>
    /\ cmd_events = <<"open", "list_markets", "load_snapshots", "load_snapshots">>

\* C27: a snapshot whose offset_ms is lower than the preceding snapshot's
\* is not processed like any other tick (the engine asserts instead): no
\* pass of the loop body hands such a snapshot to process_tick and goes on
\* to the strategy.
C27_DecreasingOffsetAsserts ==
    [][(pc = "fill" /\ pc' = "strategy" /\ IsSome(last_offset))
          => snap'.offset_ms >= Unwrap(last_offset)]_vars

TicksDone == pc = "ticks_done"
Snaps == Unwrap(ticks_snapshots)

\* Where the runs of ticks with equal offset_ms begin, the k-th of them, and
\* the ticks of the run that begins at b.
RunStarts ==
    {i \in 1..Len(book_ticks) : i = 1 \/ book_ticks[i].offset_ms # book_ticks[i - 1].offset_ms}
RunStart(k) == CHOOSE b \in RunStarts : Cardinality({c \in RunStarts : c <= b}) = k
RunOf(b) ==
    {i \in b..Len(book_ticks) :
        \A j \in b..i : book_ticks[j].offset_ms = book_ticks[b].offset_ms}

\* The state of side sd in a snapshot.
SideOf(s, sd) == IF sd = "Yes" THEN s.yes ELSE s.no

\* The state a tick carries.
StateOf(bt) ==
    [best_ask |-> bt.best_ask, best_ask_size |-> bt.best_ask_size, depth |-> bt.depth]

\* C28: ticks_to_snapshots emits one snapshot per run of ticks with equal
\* offset_ms; a side with no tick in the run has the state it had in the
\* previous snapshot, the zero SideState when there is none; for ticks
\* sorted by offset_ms the offsets of the snapshots increase strictly, and
\* every snapshot carries the requested market_id.
C28_TicksToSnapshots ==
    TicksDone =>
        /\ Len(Snaps) = Cardinality(RunStarts)
        /\ \A k \in 1..Len(Snaps) :
              LET b == RunStart(k)
              IN  /\ Snaps[k].offset_ms = book_ticks[b].offset_ms
                  /\ Snaps[k].market_id = ticks_market_id
                  /\ \A sd \in Sides :
                        LET mine == {i \in RunOf(b) : book_ticks[i].side = sd}
                        IN  IF mine # {}
                            THEN \E i \in mine : /\ \A j \in mine : j <= i
                                                 /\ SideOf(Snaps[k], sd) = StateOf(book_ticks[i])
                            ELSE IF k > 1 THEN SideOf(Snaps[k], sd) = SideOf(Snaps[k - 1], sd)
                            ELSE SideOf(Snaps[k], sd) = SideDefault
        /\ (\A i \in 1..(Len(book_ticks) - 1) :
                book_ticks[i].offset_ms <= book_ticks[i + 1].offset_ms)
              => \A k \in 1..(Len(Snaps) - 1) : Snaps[k].offset_ms < Snaps[k + 1].offset_ms

\* A No tick at offset 0, then a Yes tick later: the first snapshot has the
\* zero state on Yes, the second keeps the No state of the first.
C28_Witness ==
    /\ TicksDone
    /\ Len(book_ticks) = 2
    /\ book_ticks[1].side = "No" /\ book_ticks[1].offset_ms = 0
    /\ book_ticks[2].side = "Yes" /\ book_ticks[2].offset_ms > 0
    /\ Len(Snaps) = 2
    /\ Snaps[1].yes = SideDefault
    /\ Snaps[2].no = StateOf(book_ticks[1])
    /\ Snaps[2].no # SideDefault

\* A cancelled order has no fill time, and a step leaves it as it is and
\* does not report it as filled.
C29_CancelledState == \A i \in Idx : cancelled[i] => orders[i].filled_at_ms = None

C29_CancelledStep ==
    \A i \in Idx :
        cancelled[i] =>
            /\ cancelled'[i]
            /\ orders'[i] = orders[i]
            /\ (pc = "fill" /\ pc' = "strategy") => i \notin Range(filled_indices')

\* With the cancelled orders taken out of the book the window has the same
\* naive and the same realistic PnL.
C29_NotCounted ==
    Done =>
        LET live == {i \in Idx : ~cancelled[i]}
            counted == {i \in live : /\ ReallyFilled(orders[i])
                                     /\ adverse_selection_filter(fill_model, orders[i],
                                            matches_side(Res.outcome, orders[i].side))}
        IN  /\ Res.naive_pnl = SumOver(live, orders, Res.outcome)
            /\ Res.realistic_pnl = SumOver(counted, orders, Res.outcome)
            /\ live = {} => Res.naive_pnl = 0 /\ Res.realistic_pnl = 0

\* C29: an order cancelled on a tick is never filled by a later
\* process_tick, its filled_at_ms staying None to the end of the window, and
\* it is counted in neither the naive nor the realistic PnL; the order on
\* the other side goes on and is counted like any other.
C29_CancelledNeverFills ==
    /\ []C29_CancelledState
    /\ []C29_NotCounted
    /\ [][C29_CancelledStep]_vars

\* process_tick has just filled the surviving order of a book whose other
\* order was cancelled on an earlier tick, on a tick that is adverse for
\* both.
C29_Witness ==
    /\ pc = "strategy"
    /\ Len(orders) = 2
    /\ cancelled[1] /\ ~cancelled[2]
    /\ orders[1].filled_at_ms = None
    /\ filled_indices = <<2>>
    /\ ReallyFilled(orders[2])
    /\ is_adverse_tick(snap, orders[1].side, orders[1].price)

\* The ticks of the window after the first whose offset has reached the
\* signal offset, and the first of them.
SignalTicks == {k \in 2..Len(pcl_history) : pcl_history[k].snap.offset_ms >= 90000}
IsSignalTick(k) == k \in SignalTicks /\ \A j \in SignalTicks : k <= j

\* What the claim has the strategy emit on the signal tick, from the oracle
\* price of the first snapshot and of this one; the drift in bps is
\* 10000 * (current - open) / open.
SignalActionsOk(acts, open, current) ==
    IF open = None \/ current = None \/ open = Some(0)
    THEN acts = <<Cancel("Yes"), Cancel("No")>>
    ELSE LET diff == Unwrap(current) - Unwrap(open)
             size == IF diff < 0 THEN 0 - diff ELSE diff
         IN  IF size * 10000 < pcl_min_bps * Unwrap(open)
             THEN acts = <<Cancel("Yes"), Cancel("No")>>
             ELSE IF diff > 0 THEN acts = <<Cancel("No")>>
             ELSE IF diff < 0 THEN acts = <<Cancel("Yes")>>
             ELSE Len(acts) = 1 /\ acts[1].type = "Cancel"

\* C30: PostBothCancelLoser emits PlaceBid Yes then PlaceBid No on the first
\* tick of a window and nothing else; on the first later tick at or past the
\* signal offset it emits, once, Cancel of the predicted loser (No on a
\* positive drift, Yes on a negative one) when the drift is at least min_bps
\* in size, and Cancel Yes, Cancel No when it is weaker or an oracle price is
\* missing; it emits nothing on any other tick.
C30_PostBothCancelLoser ==
    \A k \in 1..Len(pcl_history) :
        LET acts == pcl_history[k].actions
        IN  IF k = 1 THEN acts = <<PlaceBid("Yes", 49, 10), PlaceBid("No", 49, 10)>>
            ELSE IF IsSignalTick(k)
            THEN SignalActionsOk(acts, pcl_history[1].snap.oracle_price,
                                 pcl_history[k].snap.oracle_price)
            ELSE acts = <<>>

\* The second window of a strategy: bids on a first tick that is already
\* past the signal offset, the loser cancelled on the next tick on a drift
\* of exactly 20 bps, nothing on the tick after it.
C30_Witness ==
    /\ pcl_windows = 2
    /\ pcl_min_bps = 20
    /\ Len(pcl_history) = 3
    /\ pcl_history[1].snap = [offset_ms |-> 90000, oracle_price |-> Some(2000)]
    /\ pcl_history[2].snap.oracle_price = Some(1996)
    /\ pcl_history[2].actions = <<Cancel("Yes")>>
    /\ pcl_history[3].actions = <<>>

\* The passes of the window on which the offset has reached the signal
\* offset of momentum and depth, and the first of them.
DecidingTicks == {k \in 1..Len(strat_history) : strat_history[k].snap.offset_ms >= 90000}
IsDecidingTick(k) == k \in DecidingTicks /\ \A j \in DecidingTicks : k <= j

\* What the claim has MomentumSignal emit on the deciding tick, from the
\* oracle price of the first snapshot and of this one; the drift in bps is
\* 10000 * (current - open) / open. A drift of exactly 0 that is not below
\* min_bps is left open.
MomentumBidOk(acts, open, current, min_bps) ==
    IF open = None \/ current = None \/ open = Some(0) THEN acts = <<>>
    ELSE LET diff == Unwrap(current) - Unwrap(open)
             size == IF diff < 0 THEN 0 - diff ELSE diff
         IN  IF size * 10000 < min_bps * Unwrap(open) THEN acts = <<>>
             ELSE IF diff > 0 THEN acts = <<PlaceBid("Yes", 49, 10)>>
             ELSE IF diff < 0 THEN acts = <<PlaceBid("No", 49, 10)>>
             ELSE Len(acts) <= 1 /\ \A i \in 1..Len(acts) : acts[i].type = "PlaceBid"

PlacedBefore(k) ==
    UNION {{strat_history[j].actions[i].side : i \in 1..Len(strat_history[j].actions)} :
               j \in 1..(k - 1)}

\* The sides with a bid on this tick, the cheaper one first and Yes on a tie.
CheaperFirst(yes_bid, no_bid) ==
    IF yes_bid <= no_bid THEN <<[side |-> "Yes", bid |-> yes_bid], [side |-> "No", bid |-> no_bid]>>
    ELSE <<[side |-> "No", bid |-> no_bid], [side |-> "Yes", bid |-> yes_bid]>>

\* The bids the claim has Gabagool place on a tick: none unless the combined
\* price is below max_combined (0.99); else on the cheaper side and then on
\* the other, leaving out a side that was placed before or has no bid.
GabagoolExpected(placed, yes_bid, no_bid) ==
    IF yes_bid + no_bid >= 99 THEN <<>>
    ELSE LET wanted == SelectSeq(CheaperFirst(yes_bid, no_bid),
                                 LAMBDA sb : sb.side \notin placed /\ sb.bid > 0)
         IN  [i \in 1..Len(wanted) |-> PlaceBid(wanted[i].side, wanted[i].bid, 10)]

\* C32: Gabagool bids only on a tick whose combined best bids are below
\* max_combined; on such a tick it buys the cheaper side first (Yes on a
\* tie) and then the other side; it never bids on a side whose best bid is
\* absent or 0, and emits nothing once both sides have been placed.
C32_Gabagool ==
    strat_kind = "gabagool" =>
        \A k \in 1..Len(strat_history) :
            strat_history[k].actions =
                GabagoolExpected(PlacedBefore(k), best_bid_or_zero(strat_history[k].snap.yes),
                             best_bid_or_zero(strat_history[k].snap.no))

\* The places of the actions of the window: the pass and the index in the
\* list on_tick returned.
ActionPlaces ==
    {p \in (1..Len(strat_history)) \X (1..2) : p[2] <= Len(strat_history[p[1]].actions)}
ActionAt(p) == strat_history[p[1]].actions[p[2]]
Earlier(p, q) == p[1] < q[1] \/ (p[1] = q[1] /\ p[2] < q[2])

\* C33: between two calls of reset a built-in strategy emits at most one
\* PlaceBid per side: no PlaceBid of a window comes after another one on
\* the same side, so the engine, whose orders are those placed in the
\* window, finds no order on the side of a PlaceBid.
C33_OnePlaceBidPerSide ==
    \A q \in ActionPlaces :
        ActionAt(q).type = "PlaceBid" =>
            ~\E p \in ActionPlaces :
                /\ Earlier(p, q)
                /\ ActionAt(p).type = "PlaceBid"
                /\ ActionAt(p).side = ActionAt(q).side

\* The second window of a Gabagool: a bid on No while Yes has no bid, the
\* bid on Yes on the next tick, and nothing on a third tick that is as cheap.
C33_Witness ==
    /\ strat_kind = "gabagool"
    /\ strat_windows = 2
    /\ Len(strat_history) = 3
    /\ strat_history[1].actions = <<PlaceBid("No", 60, 10)>>
    /\ strat_history[2].actions = <<PlaceBid("Yes", 48, 10)>>
    /\ strat_history[3].snap.yes.best_bid = Some(48)
    /\ strat_history[3].snap.no.best_bid = Some(50)
    /\ strat_history[3].actions = <<>>

\* C34: after reset and on_market_open(snapshots[0]) a built-in strategy
\* that was used in earlier windows returns, on every snapshot of the
\* window, the actions that an instance built anew with the same parameters
\* and started the same way returns.
C34_ResetAsFresh ==
    \A k \in 1..Len(strat_history) :
        strat_history[k].actions = strat_history[k].fresh_actions

\* The second window of a PostBothCancelLoser that placed its bids in the
\* first: it bids again on the first tick and cancels No on a drift of 20
\* bps from the opening price of this window.
C34_Witness ==
    /\ strat_kind = "post_cancel"
    /\ strat_windows = 2
    /\ strat_state.min_bps = 20
    /\ Len(strat_history) = 2
    /\ strat_history[1].snap.oracle_price = Some(2000)
    /\ strat_history[1].actions = <<PlaceBid("Yes", 49, 10), PlaceBid("No", 49, 10)>>
    /\ strat_history[2].snap.offset_ms = 90000
    /\ strat_history[2].snap.oracle_price = Some(2004)
    /\ strat_history[2].actions = <<Cancel("No")>>
    /\ strat_history[2].fresh_actions = <<Cancel("No")>>

\* The sum of f over the windows of a set.
RECURSIVE SumWindows(_, _)
SumWindows(S, f) ==
    IF S = {} THEN 0
    ELSE LET i == CHOOSE j \in S : TRUE
         IN  report_results[i][f] + SumWindows(S \ {i}, f)

\* C35: in a Report of from_results trades_taken + skipped = total_windows,
\* correct <= fills <= trades_taken, correct is the number of traded windows
\* that are filled and correct, phantom_fill_gap is naive_total_pnl less
\* realistic_total_pnl, the totals being those of the traded windows, and
\* fill_rate, naive_win_rate and realistic_win_rate are within [0, 1].
C35_ReportCounts ==
    ReportDone =>
        /\ Rep.total_windows = Len(report_results)
        /\ Rep.trades_taken + Rep.skipped = Rep.total_windows
        /\ Rep.correct <= Rep.fills
        /\ Rep.fills <= Rep.trades_taken
        /\ Rep.correct = Cardinality({i \in FilledWindows : report_results[i].correct})
        /\ Rep.naive_total_pnl = SumWindows(TradedWindows, "naive_pnl")
        /\ Rep.realistic_total_pnl = SumWindows(TradedWindows, "realistic_pnl")
        /\ Rep.phantom_fill_gap = Rep.naive_total_pnl - Rep.realistic_total_pnl
        /\ \A f \in {"fill_rate", "naive_win_rate", "realistic_win_rate"} :
              Rep[f].finite /\ 0 <= Rep[f].value /\ Rep[f].value <= Scale

\* Three windows: none placed, a correct bid that did not fill, a correct
\* bid that filled; one of the two trades counts as correct.
C35_Witness ==
    /\ ReportDone
    /\ Len(report_results) = 3
    /\ Cardinality(TradedWindows) = 2
    /\ Cardinality(FilledWindows) = 1
    /\ \A i \in TradedWindows : report_results[i].correct
    /\ Rep.skipped = 1
    /\ Rep.correct = 1
    /\ Rep.naive_win_rate = Finite(Scale)
    /\ Rep.phantom_fill_gap = 510

\* The orders the naive PnL counts: those that are not cancelled.
NaiveSet == {i \in Idx : ~cancelled[i]}

\* C36: every order that counts for realistic_pnl counts for naive_pnl with
\* the same signed amount, so that naive_pnl exceeds realistic_pnl by the
\* amounts of the orders that are not cancelled and did not fill or did not
\* pass the filter; a result with filled = false has realistic_pnl = 0, and
\* when every order that is not cancelled filled and passes the filter the
\* two are equal.
C36_RealisticWithinNaive ==
    Done =>
        /\ C9_RealisticSet \subseteq NaiveSet
        /\ Res.naive_pnl - Res.realistic_pnl =
               SumOver(NaiveSet \ C9_RealisticSet, orders, Res.outcome)
        /\ ~Res.filled => Res.realistic_pnl = 0
        /\ NaiveSet = C9_RealisticSet => Res.realistic_pnl = Res.naive_pnl

\* Two orders, neither cancelled: the first filled and counts, the second
\* never filled, and the naive PnL exceeds the realistic one by its amount.
C36_Witness ==
    /\ Done
    /\ Len(orders) = 2
    /\ NaiveSet = {1, 2}
    /\ C9_RealisticSet = {1}
    /\ ~orders[2].filled
    /\ Res.filled
    /\ Res.realistic_pnl # 0
    /\ Res.naive_pnl - Res.realistic_pnl = SignedAmount(orders[2], Res.outcome)

\* The WindowResult, by the fields Report::from_results reads.
ResWindow ==
    WindowOf(Res.bid_side, Res.filled, Res.correct, Res.naive_pnl, Res.realistic_pnl,
             Res.queue_ahead_at_place, Res.fill_time_ms)

\* C37: when no order that is not cancelled is left at the end of a window
\* (none was placed, or all were cancelled) the WindowResult has predicted
\* and bid_side None, filled and correct false, queue_ahead_at_place 0 and
\* both PnLs 0; bid_side is None in no other case, so the totals that
\* from_results takes over the windows with bid_side set are those of the
\* window.
C37_NoLiveOrderResult ==
    Done =>
        /\ NaiveSet = {} =>
              /\ Res.predicted = None
              /\ Res.bid_side = None
              /\ ~Res.filled
              /\ ~Res.correct
              /\ Res.queue_ahead_at_place = 0
              /\ Res.naive_pnl = 0
              /\ Res.realistic_pnl = 0
        /\ Res.bid_side = None => NaiveSet = {}
        /\ from_results(<<ResWindow>>).naive_total_pnl = Res.naive_pnl
        /\ from_results(<<ResWindow>>).realistic_total_pnl = Res.realistic_pnl

\* A window whose two orders were both cancelled.
C37_Witness ==
    /\ Done
    /\ Len(orders) = 2
    /\ cancelled[1] /\ cancelled[2]
    /\ Res.bid_side = None
    /\ IsSome(Res.signal_offset_ms)
    /\ from_results(<<ResWindow>>).trades_taken = 0

HistoryDone == pc = "history_done"

\* The run of same-direction outcomes that ends at market i of a list of
\* LongFadeLists (one group, in opening order), with no gap of more than
\* duration + 60 s inside it: counted over all the markets up to i.
RECURSIVE WholeStreak(_, _)
WholeStreak(ms, i) ==
    IF i = 1 THEN 1
    ELSE IF ms[i - 1].outcome # ms[i].outcome THEN 1
    ELSE IF ms[i].open_ts - ms[i - 1].open_ts > ms[i].duration_secs + 60 THEN 1
    ELSE 1 + WholeStreak(ms, i - 1)

\* The signals from a history that is never cut.
WholeSignals(ms, mins, maxs) ==
    LET from == {i \in 1..(Len(ms) - 1) :
                    WholeStreak(ms, i) >= mins /\ WholeStreak(ms, i) <= maxs}
    IN  [id \in {ms[i + 1].id : i \in from} |->
            IF ms[id - 1].outcome = Some("YES") THEN "No" ELSE "Yes"]

\* C38: cutting the streak history to its last max_streak + 5 markets never
\* changes the signals: they are those of a history that is never cut.
C38_TruncationInvisible ==
    HistoryDone => Unwrap(fade_signals) = WholeSignals(fade_markets, min_streak, max_streak)

\* Nine markets in a row that resolved YES with max_streak = 1: the history
\* holds six of them, the streak at the eighth is 8, and the second market
\* alone has a signal.
C38_Witness ==
    /\ HistoryDone
    /\ min_streak = 1
    /\ max_streak = 1
    /\ \A i \in 1..Len(fade_markets) :
          fade_markets[i].outcome = Some("YES") /\ fade_markets[i].open_ts = 300 * (i - 1)
    /\ WholeStreak(fade_markets, 8) > max_history(max_streak)
    /\ DOMAIN Unwrap(fade_signals) = {2}
    /\ Unwrap(fade_signals)[2] = "No"

\* Snapshot s is adverse for order o: the best ask of its side is there and
\* at or below its price.
AdverseIn(s, o) ==
    LET st == IF o.side = "Yes" THEN s.yes ELSE s.no
    IN  st.best_ask # None /\ st.best_ask[1] <= o.price

\* The best_ask_size of the side of o in snapshot s, 0 if absent.
SweepIn(s, o) ==
    LET st == IF o.side = "Yes" THEN s.yes ELSE s.no
    IN  IF st.best_ask_size = None THEN 0 ELSE st.best_ask_size[1]

\* One call on the DeLise fill model, seen from the orders' queue_consumed.
C39_QueueStep ==
    /\ Len(orders') > Len(orders) =>
          /\ orders'[Len(orders')].queue_consumed = 0
          /\ \A i \in 1..Len(orders) : orders'[i] = orders[i]
    /\ tick' = tick + 1 =>
          /\ Len(orders') = Len(orders)
          /\ \A i \in 1..Len(orders) :
                LET b == orders[i]
                    a == orders'[i]
                IN  /\ a.queue_consumed >= b.queue_consumed
                    /\ a.queue_ahead = b.queue_ahead
                    /\ IF ~b.filled /\ AdverseIn(snap', b)
                       THEN /\ a.queue_consumed = b.queue_consumed + SweepIn(snap', b)
                            /\ a.filled <=> (/\ a.queue_consumed >= a.queue_ahead
                                              /\ us_drawn'[i] < adverse_fill_prob)
                       ELSE a.queue_consumed = b.queue_consumed

\* C39: under the DeLise fill model an order's queue_consumed is 0 when
\* create_order returns it and never decreases; process_tick changes it only
\* for an open order on a tick that is adverse for its side, adding
\* best_ask_size to what earlier ticks consumed, also when it has already
\* reached queue_ahead and the draw failed; the order fills on the adverse
\* tick where the sum has reached queue_ahead and the draw succeeds.
C39_QueueConsumed == [][C39_QueueStep]_vars

\* Two adverse ticks of 100 shares each on two orders: the one with 150 ahead
\* stayed open at 100 and filled at 200; the one with nothing ahead failed its
\* draw twice and went from 100 to 200.
C39_Witness ==
    /\ Ticked
    /\ Len(orders) = 2
    /\ \E i, j \in Idx :
          /\ orders[i].queue_ahead = 150
          /\ ~orders_before[i].filled /\ orders_before[i].queue_consumed = 100
          /\ orders[i].filled /\ orders[i].queue_consumed = 200
          /\ us_drawn[i] < adverse_fill_prob
          /\ orders[j].queue_ahead = 0
          /\ ~orders_before[j].filled /\ orders_before[j].queue_consumed = 100
          /\ ~orders[j].filled /\ orders[j].queue_consumed = 200
          /\ us_drawn[j] >= adverse_fill_prob

\* C40: when the offsets of the snapshots never decrease, every order that
\* really filled has filled_at_ms >= placed_at_ms, and a WindowResult with
\* fill_time_ms = Some(t) has signal_offset_ms = Some(s) with s <= t.
C40_FillNotBeforePlacement ==
    /\ \A i \in Idx :
          ReallyFilled(orders[i]) => Unwrap(orders[i].filled_at_ms) >= orders[i].placed_at_ms
    /\ Done =>
          (IsSome(Res.fill_time_ms) =>
              /\ IsSome(Res.signal_offset_ms)
              /\ Unwrap(Res.signal_offset_ms) <= Unwrap(Res.fill_time_ms))

\* The first order was placed and cancelled, the second placed on a later
\* tick and filled on a tick after that one: the result has the offset of
\* the first placement as its signal and that of the fill as its fill time.
C40_Witness ==
    /\ Done
    /\ offsets_order \in {"strict", "nondecreasing"}
    /\ Len(orders) = 2
    /\ cancelled[1] /\ ~cancelled[2]
    /\ ReallyFilled(orders[2])
    /\ orders[2].placed_at_ms > orders[1].placed_at_ms
    /\ Unwrap(orders[2].filled_at_ms) > orders[2].placed_at_ms
    /\ Res.signal_offset_ms = Some(orders[1].placed_at_ms)
    /\ Res.fill_time_ms = orders[2].filled_at_ms

====
